---------------------------- MODULE Spec2Model ----------------------------
(***************************************************************************)
(* Verification model of pdf-table-extractor: the page-layout analysis     *)
(* (build_structure_map.py), the closed-cell lattice detector              *)
(* (lattice_table_detector.py), the lattice grid repair and cross-page     *)
(* stitcher (lattice_table.py) and the stream placer (stream_table.py).    *)
(*                                                                         *)
(* Each component is a pure function of its arguments.  It is modelled as  *)
(* an operator computed the way the code computes it, and is exercised by  *)
(* a specification of its own: Init draws the arguments from bounded sets  *)
(* and one action applies the function and stores what it returns.         *)
(*                                                                         *)
(* Python values:                                                          *)
(*   - a bbox (x0, top, x1, bottom) is the tuple <<x0, top, x1, bottom>>;  *)
(*   - a float that the code obtains by one division is kept as the exact  *)
(*     fraction [kind |-> "float", num, den]; a raised exception is a      *)
(*     record whose kind is the exception's name.                          *)
(***************************************************************************)
EXTENDS Integers, Sequences, FiniteSets, TLC

VARIABLES
    \* calculate_iou(box_a, box_b) and what it returned
    box_a, box_b, iou,
    \* analyze_page_layout, step 4: the two engines' candidates, the final
    \* tables and where the step stands
    geometric_tables, text_table_bboxes, final_tables, dedup_pc,
    \* extract_lattice_tables: the tables extracted so far, the orientation of
    \* each page read so far (page n at index n), the stitcher's result and
    \* where the run stands
    all_tables, page_orientations, merged_tables, merge_pc,
    \* find_closed_cells: the horizontal and the vertical lines, the cells
    \* returned
    h_lines, v_lines, cells, cells_pc,
    \* group_cells_into_tables: the list of cells and the groups returned
    group_cells, cell_groups, group_pc,
    \* fix_centered_text_issues: the raw grid, the estimated column count
    \* and the grid returned
    table_data, estimated_cols, fixed_table, repair_pc,
    \* extract_stream_tables: the rows of words of a table, the grid written
    \* and the warnings printed
    word_rows, stream_table, stream_warnings, stream_pc,
    \* extract_text_only_tables: the bbox of a table, the x of its virtual
    \* vertical lines, its rows of words, the grid written and the warnings
    \* printed
    to_bbox, virtual_lines, to_rows, to_table, to_warnings, to_pc,
    \* analyze_page_layout, lines 222-237: the bboxes of the page's text
    \* blocks and the elements of the layout returned
    text_blocks, elements_to_keep, layout_pc,
    \* analyze_page_layout, lines 52-184: the words of the page, the line
    \* clusters made of them and the text blocks made of the clusters
    page_words, line_clusters, word_blocks, norm_pc,
    \* analyze_page_layout and find_geometric_tables: the line and rectangle
    \* records of the page source, the page elements made of them, the list
    \* all_geoms of the detector
    page_lines, page_rects, page_elements, all_geoms, geom_pc,
    \* find_lattice_tables: the x and y of the rulings of a grid, the page
    \* elements made of them and the tables found
    lattice_xs, lattice_ys, lattice_elements, lattice_tables, lattice_pc,
    \* extract_lattice_tables, lines 88-152: the lattice tables of the map, as
    \* [page_num, outcome], the position of the loop, the tables extracted and
    \* the tables whose failure was logged
    extract_tables, extract_pos, extracted_tables, extract_log, extract_pc,
    \* the saving of the tables by an extractor: for every table whether the
    \* write of its file fails, the position of the loop, the files written
    \* and the failures logged
    save_extractor, write_fails, save_pos, saved_files, save_log, save_pc,
    \* one run of an extractor: which extractor, the merge_tables flag, the
    \* tables of the map as [page_num, bbox, outcome], the position of the
    \* loop, the tables whose grid is complete, the lists the stitcher was
    \* called on, the files written
    run_extractor, merge_tables, map_tables, table_pos, placed_tables, stitcher_calls, written_files, run_pc,
    \* find_geometric_tables, lines 62-256: what page.find_tables() would
    \* return, how often it was called, the candidates after the expansion
    \* and after the merge, the tables returned
    proposals, proposer_calls, expanded_candidates, merged_candidates, hybrid_tables, hybrid_pc,
    \* find_text_alignment_tables: the words page.extract_words() returns and
    \* the candidates returned
    extracted_words, alignment_tables, align_pc,
    \* the orientation of a page: its (width, height), the page layout
    \* analyze_page_layout returns for it, and the orientation
    \* extract_lattice_tables derives from that layout
    page_size, layout_page, stitcher_orientation, orient_pc

iouVars   == <<box_a, box_b, iou>>
dedupVars == <<geometric_tables, text_table_bboxes, final_tables, dedup_pc>>
mergeVars == <<all_tables, page_orientations, merged_tables, merge_pc>>
cellsVars == <<h_lines, v_lines, cells, cells_pc>>
groupVars == <<group_cells, cell_groups, group_pc>>
repairVars == <<table_data, estimated_cols, fixed_table, repair_pc>>
streamVars == <<word_rows, stream_table, stream_warnings, stream_pc>>
textonlyVars == <<to_bbox, virtual_lines, to_rows, to_table, to_warnings, to_pc>>
layoutVars == <<text_blocks, elements_to_keep, layout_pc>>
normVars == <<page_words, line_clusters, word_blocks, norm_pc>>
geomVars == <<page_lines, page_rects, page_elements, all_geoms, geom_pc>>
latticeVars == <<lattice_xs, lattice_ys, lattice_elements, lattice_tables, lattice_pc>>
extractVars == <<extract_tables, extract_pos, extracted_tables, extract_log, extract_pc>>
saveVars == <<save_extractor, write_fails, save_pos, saved_files, save_log, save_pc>>
runVars == <<run_extractor, merge_tables, map_tables, table_pos, placed_tables, stitcher_calls, written_files, run_pc>>
hybridVars == <<proposals, proposer_calls, expanded_candidates, merged_candidates, hybrid_tables, hybrid_pc>>
alignVars == <<extracted_words, alignment_tables, align_pc>>
orientVars == <<page_size, layout_page, stitcher_orientation, orient_pc>>
vars == <<iouVars, dedupVars, mergeVars, cellsVars, groupVars, repairVars,
          streamVars, textonlyVars, layoutVars, normVars, geomVars,
          latticeVars, extractVars, saveVars, runVars, hybridVars,
          alignVars, orientVars>>

---------------------------------------------------------------------------
(* Helpers *)

Max(a, b) == IF a >= b THEN a ELSE b
Min(a, b) == IF a <= b THEN a ELSE b
Abs(a)    == IF a >= 0 THEN a ELSE 0 - a

\* All sequences over S of length 0..n
SeqsUpTo(S, n) == UNION {[1..k -> S] : k \in 0..n}

\* A well-formed bbox over the coordinate sets X and Y
BoxesOver(X, Y) ==
    {<<x0, t, x1, b>> : x0 \in X, t \in Y, x1 \in X, b \in Y}

WellFormed(box) == box[3] >= box[1] /\ box[4] >= box[2]

---------------------------------------------------------------------------
(* build_structure_map.py: calculate_iou *)

Float(n, d)       == [kind |-> "float", num |-> n, den |-> d]
ZeroDivisionError == [kind |-> "ZeroDivisionError", num |-> 0, den |-> 0]
NoValue           == [kind |-> "none", num |-> 0, den |-> 0]

calculate_iou(a, b) ==
    LET x_left   == Max(a[1], b[1])
        y_top    == Max(a[2], b[2])
        x_right  == Min(a[3], b[3])
        y_bottom == Min(a[4], b[4])
        intersection_area == (x_right - x_left) * (y_bottom - y_top)
        box_a_area == (a[3] - a[1]) * (a[4] - a[2])
        box_b_area == (b[3] - b[1]) * (b[4] - b[2])
        union_area == box_a_area + box_b_area - intersection_area
    IN  IF x_right < x_left \/ y_bottom < y_top
        THEN Float(0, 1)
        ELSE IF union_area = 0
             THEN ZeroDivisionError
             ELSE Float(intersection_area, union_area)

\* r > n/d for a returned float r (d > 0, r.den > 0)
FloatGt(r, n, d) == r.kind = "float" /\ r.num * d > n * r.den

MaxCoord == 2

IoUBoxes == {bx \in BoxesOver(0..MaxCoord, 0..MaxCoord) : WellFormed(bx)}

InitIoUVars ==
    /\ box_a = <<0, 0, 0, 0>>
    /\ box_b = <<0, 0, 0, 0>>
    /\ iou = NoValue

CallCalculateIou ==
    /\ iou.kind = "none"
    /\ iou' = calculate_iou(box_a, box_b)
    /\ UNCHANGED <<box_a, box_b, dedupVars, mergeVars, cellsVars, groupVars, repairVars, streamVars, textonlyVars, layoutVars, normVars, geomVars, latticeVars, extractVars, saveVars, runVars, hybridVars, alignVars, orientVars>>

---------------------------------------------------------------------------
(* build_structure_map.py: analyze_page_layout, step 4 (lines 202-220) *)

\* the threshold of line 209, 0.1, as the fraction 1/10
DedupIouNum == 1
DedupIouDen == 10

\* Mutant of IsOverlapping: the scan stops after the first geometric bbox.
IsOverlappingFirstOnly(text_bbox, geo_table_bboxes, j) ==
    IF j > Len(geo_table_bboxes) THEN "no"
    ELSE LET r == calculate_iou(text_bbox, geo_table_bboxes[j])
         IN  IF r.kind = "ZeroDivisionError" THEN "raise"
             ELSE IF FloatGt(r, 1, 10) THEN "yes"
             ELSE "no"

\* Lines 207-211: the scan of the geometric bboxes for one text candidate:
\* "yes" at the first IoU above the threshold, "raise" if calculate_iou
\* raises before that, "no" when the list is exhausted.
RECURSIVE IsOverlapping(_, _, _)
IsOverlapping(text_bbox, geo_table_bboxes, j) ==
    IF j > Len(geo_table_bboxes) THEN "no"
    ELSE LET r == calculate_iou(text_bbox, geo_table_bboxes[j])
         IN  IF r.kind = "ZeroDivisionError" THEN "raise"
             ELSE IF FloatGt(r, DedupIouNum, DedupIouDen) THEN "yes"
             ELSE IsOverlapping(text_bbox, geo_table_bboxes, j + 1)

GeoTable(bbox)  == [type |-> "table", bbox |-> bbox, parsing_strategy |-> "lattice"]
TextTable(bbox) == [type |-> "table", bbox |-> bbox, parsing_strategy |-> "text_only"]

\* Lines 202-220: final_tables starts as the geometric tables; each text
\* candidate is appended unless it overlaps a geometric one.  The result is
\* [pc, tables]: pc is "raised" when calculate_iou raised on the way.
RECURSIVE Deduplicate(_, _, _, _)
Deduplicate(geo_table_bboxes, text_bboxes, k, acc) ==
    IF k > Len(text_bboxes) THEN [pc |-> "done", tables |-> acc]
    ELSE LET o == IsOverlapping(text_bboxes[k], geo_table_bboxes, 1)
         IN  IF o = "raise" THEN [pc |-> "raised", tables |-> <<>>]
             ELSE IF o = "yes"
                  THEN Deduplicate(geo_table_bboxes, text_bboxes, k + 1, acc)
                  ELSE Deduplicate(geo_table_bboxes, text_bboxes, k + 1,
                                   Append(acc, TextTable(text_bboxes[k])))

\* Candidate bboxes: x extents that put the IoU of two boxes of the same
\* height at 0, 1/11, 1/10 (the threshold itself), 9/11, 10/11 and 1; a
\* zero-height box makes calculate_iou divide by zero.
DedupX == {0, 1, 10, 11}
DedupY == {0, 1}
DedupBoxes ==
    {bx \in BoxesOver(DedupX, DedupY) : bx[1] < bx[3] /\ bx[2] = 0}

MaxGeoTables  == 2
MaxTextTables == 1

InitDedupVars ==
    /\ geometric_tables = <<>>
    /\ text_table_bboxes = <<>>
    /\ final_tables = <<>>
    /\ dedup_pc = "idle"

DeduplicateTables ==
    /\ dedup_pc = "start"
    /\ LET geo_table_bboxes == geometric_tables
           r == Deduplicate(geo_table_bboxes, text_table_bboxes, 1,
                            [i \in 1..Len(geometric_tables) |->
                                 GeoTable(geometric_tables[i])])
       IN  /\ final_tables' = r.tables
           /\ dedup_pc' = r.pc
    /\ UNCHANGED <<geometric_tables, text_table_bboxes, iouVars, mergeVars, cellsVars, groupVars, repairVars, streamVars, textonlyVars, layoutVars, normVars, geomVars, latticeVars, extractVars, saveVars, runVars, hybridVars, alignVars, orientVars>>

---------------------------------------------------------------------------
(* lattice_table.py: extract_lattice_tables and merge_cross_page_tables *)

\* Lines 262-263 and 330-331
y0_tolerance == 2
y1_tolerance == 12
x_tolerance  == 10

\* Lines 137-144: the table_info of the table_index-th lattice table of a
\* page.  The grid is not looked into by the stitcher: each table carries one
\* row of max_cols cells, every cell holding the table's (page, index) in
\* place of its text, so that a row tells which table it came from.
TableInfo(page_num, table_index, bbox, max_cols, orientation) ==
    [page_num |-> page_num, table_index |-> table_index, bbox |-> bbox,
     data |-> <<[c \in 1..max_cols |-> <<page_num, table_index>>]>>,
     max_cols |-> max_cols, orientation |-> orientation,
     id |-> <<0, 0>>, is_merged |-> FALSE, merged_pages |-> <<>>]

\* Lines 209-211: the unique ID of each table
WithId(tables) ==
    [i \in 1..Len(tables) |->
        [tables[i] EXCEPT !.id = <<tables[i].page_num, tables[i].table_index>>]]

\* Line 214: sort(key=(page_num, bbox[1])), a stable sort: a table goes
\* after every table whose key is not greater.
SortKeyLE(a, b) ==
    \/ a.page_num < b.page_num
    \/ a.page_num = b.page_num /\ a.bbox[2] <= b.bbox[2]

InsertSorted(sorted, t) ==
    LET n == Cardinality({i \in 1..Len(sorted) : SortKeyLE(sorted[i], t)})
    IN  SubSeq(sorted, 1, n) \o <<t>> \o SubSeq(sorted, n + 1, Len(sorted))

RECURSIVE SortTables(_, _, _)
SortTables(tables, k, sorted) ==
    IF k > Len(tables) THEN sorted
    ELSE SortTables(tables, k + 1, InsertSorted(sorted, tables[k]))

\* Lines 224-226 and 277
TablesByPage(tables, page_num) ==
    SelectSeq(tables, LAMBDA t : t.page_num = page_num)

RECURSIVE SortedSeqOf(_)
SortedSeqOf(S) ==
    IF S = {} THEN <<>>
    ELSE LET m == CHOOSE x \in S : \A y \in S : x <= y
         IN  <<m>> \o SortedSeqOf(S \ {m})

PageNums(tables) == SortedSeqOf({tables[i].page_num : i \in 1..Len(tables)})

\* Lines 229-237 and 313-318: the orientation's global max bottom and min top
OrientationTables(tables, orientation) ==
    SelectSeq(tables, LAMBDA t : t.orientation = orientation)

MaxGlobalY1(tables, orientation) ==
    LET ts == OrientationTables(tables, orientation)
    IN  IF Len(ts) = 0 THEN 0
        ELSE CHOOSE v \in {ts[i].bbox[4] : i \in 1..Len(ts)} :
                 \A i \in 1..Len(ts) : ts[i].bbox[4] <= v

MinGlobalY0(tables, orientation) ==
    LET ts == OrientationTables(tables, orientation)
    IN  IF Len(ts) = 0 THEN 0
        ELSE CHOOSE v \in {ts[i].bbox[2] : i \in 1..Len(ts)} :
                 \A i \in 1..Len(ts) : ts[i].bbox[2] >= v

\* Lines 240-245: max(tables, key=bbox[3]) is the first table of the page, in
\* list order, with the largest bottom
BottomTable(tables, page_num) ==
    LET ts == TablesByPage(tables, page_num)
        i  == CHOOSE i \in 1..Len(ts) :
                  /\ \A j \in 1..Len(ts) : ts[j].bbox[4] <= ts[i].bbox[4]
                  /\ \A j \in 1..(i - 1) : ts[j].bbox[4] < ts[i].bbox[4]
    IN  ts[i]

\* Lines 248-253: min(tables, key=bbox[1]) is the first with the smallest top
TopTable(tables, page_num) ==
    LET ts == TablesByPage(tables, page_num)
        i  == CHOOSE i \in 1..Len(ts) :
                  /\ \A j \in 1..Len(ts) : ts[j].bbox[2] >= ts[i].bbox[2]
                  /\ \A j \in 1..(i - 1) : ts[j].bbox[2] > ts[i].bbox[2]
    IN  ts[i]

\* Mutant of AlreadyProcessed: the processed IDs are not consulted.
NeverProcessed(table, processed_table_ids) == FALSE

\* Lines 298 and 303
AlreadyProcessed(table, processed_table_ids) == table.id \in processed_table_ids

\* Mutant of SameOrientation: the orientations are not compared.
AnyOrientation(current_bottom_table, next_top_table) == TRUE

\* Line 307
SameOrientation(current_bottom_table, next_top_table) ==
    current_bottom_table.orientation = next_top_table.orientation

\* Mutant of x_aligned: edges exactly 10 apart count as aligned.
x_alignedInclusive(current_bottom_table, next_top_table) ==
    /\ Abs(current_bottom_table.bbox[1] - next_top_table.bbox[1]) <= 10
    /\ Abs(current_bottom_table.bbox[3] - next_top_table.bbox[3]) <= 10

\* Lines 330-331
x_aligned(current_bottom_table, next_top_table) ==
    /\ Abs(current_bottom_table.bbox[1] - next_top_table.bbox[1]) < x_tolerance
    /\ Abs(current_bottom_table.bbox[3] - next_top_table.bbox[3]) < x_tolerance

\* Lines 312-342
should_merge(tables, current_bottom_table, next_top_table) ==
    LET orientation == current_bottom_table.orientation
        max_global_y1 == MaxGlobalY1(tables, orientation)
        min_global_y0 == MinGlobalY0(tables, orientation)
        is_bottom_y1_max ==
            (max_global_y1 - current_bottom_table.bbox[4]) <= y1_tolerance
        is_top_y0_min ==
            (next_top_table.bbox[2] - min_global_y0) <= y0_tolerance
        cols_match == current_bottom_table.max_cols = next_top_table.max_cols
    IN  /\ cols_match
        /\ x_aligned(current_bottom_table, next_top_table)
        /\ (is_bottom_y1_max \/ is_top_y0_min)

\* Mutant of MergedTable: the bbox of the first table is kept as it is.
MergedTableKeepsBbox(current_bottom_table, next_top_table, current_page, next_page) ==
    [current_bottom_table EXCEPT
        !.data = current_bottom_table.data \o next_top_table.data,
        !.is_merged = TRUE,
        !.merged_pages = <<current_page, next_page>>]

\* Lines 348-365
MergedTable(current_bottom_table, next_top_table, current_page, next_page) ==
    [current_bottom_table EXCEPT
        !.data = current_bottom_table.data \o next_top_table.data,
        !.bbox = <<current_bottom_table.bbox[1], current_bottom_table.bbox[2],
                   current_bottom_table.bbox[3], next_top_table.bbox[4]>>,
        !.is_merged = TRUE,
        !.merged_pages = <<current_page, next_page>>]

\* Lines 280-374: one iteration of the loop over the page numbers, on the
\* state st = [processed_table_ids, merged_tables]
MergeIteration(tables, page_nums, i, st) ==
    LET current_page == page_nums[i]
        next_page    == page_nums[i + 1]
        current_bottom_table == BottomTable(tables, current_page)
        next_top_table       == TopTable(tables, next_page)
    IN  IF next_page # current_page + 1 THEN st
        ELSE IF AlreadyProcessed(current_bottom_table, st.processed_table_ids) THEN st
        ELSE IF AlreadyProcessed(next_top_table, st.processed_table_ids) THEN st
        ELSE IF ~ SameOrientation(current_bottom_table, next_top_table) THEN st
        ELSE IF should_merge(tables, current_bottom_table, next_top_table)
        THEN [processed_table_ids |->
                  st.processed_table_ids
                      \cup {current_bottom_table.id, next_top_table.id},
              merged_tables |->
                  Append(st.merged_tables,
                         MergedTable(current_bottom_table, next_top_table,
                                     current_page, next_page))]
        ELSE [processed_table_ids |->
                  st.processed_table_ids \cup {current_bottom_table.id},
              merged_tables |-> Append(st.merged_tables, current_bottom_table)]

RECURSIVE MergeLoop(_, _, _, _)
MergeLoop(tables, page_nums, i, st) ==
    IF i > Len(page_nums) - 1 THEN st
    ELSE MergeLoop(tables, page_nums, i + 1,
                   MergeIteration(tables, page_nums, i, st))

\* Mutant of AddLastBottom: the processed IDs are not consulted.
AddLastBottomAlways(tables, page_nums, st) ==
    LET last_bottom_table == BottomTable(tables, page_nums[Len(page_nums)])
    IN  [processed_table_ids |->
             st.processed_table_ids \cup {last_bottom_table.id},
         merged_tables |-> Append(st.merged_tables, last_bottom_table)]

\* Lines 377-381: the last page's bottom table, if not processed
AddLastBottom(tables, page_nums, st) ==
    LET last_bottom_table == BottomTable(tables, page_nums[Len(page_nums)])
    IN  IF last_bottom_table.id \notin st.processed_table_ids
        THEN [processed_table_ids |->
                  st.processed_table_ids \cup {last_bottom_table.id},
              merged_tables |-> Append(st.merged_tables, last_bottom_table)]
        ELSE st

\* Lines 384-387: every table not processed so far, in list order
RECURSIVE AddUnprocessed(_, _, _)
AddUnprocessed(tables, k, st) ==
    IF k > Len(tables) THEN st
    ELSE AddUnprocessed(tables, k + 1,
            IF tables[k].id \notin st.processed_table_ids
            THEN [processed_table_ids |->
                      st.processed_table_ids \cup {tables[k].id},
                  merged_tables |-> Append(st.merged_tables, tables[k])]
            ELSE st)

\* Lines 184-390
merge_cross_page_tables(input_tables) ==
    IF Len(input_tables) = 0 THEN <<>>
    ELSE LET tables    == SortTables(WithId(input_tables), 1, <<>>)
             page_nums == PageNums(tables)
             st0 == [processed_table_ids |-> {}, merged_tables |-> <<>>]
             st1 == MergeLoop(tables, page_nums, 1, st0)
             st2 == AddLastBottom(tables, page_nums, st1)
             st3 == AddUnprocessed(tables, 1, st2)
         IN  st3.merged_tables

\* The tables of the model, as (bbox, max_cols).  Vertically: U = (0, 20)
\* at the top of a page, L = (25, 33) at its bottom, lower than where U ends,
\* C = (2, 21) whose top is 2 from U's and whose bottom is 12 from L's (the
\* two tolerances, met exactly), where U's bottom is 13 from L's.
\* Horizontally (0, 50), and for U also a left edge moved by exactly
\* x_tolerance.  Two columns, and for U also three.
StitchShapes ==
    { <<<<0, 0, 50, 20>>, 2>>, <<<<0, 0, 50, 20>>, 3>>,
      <<<<0, 25, 50, 33>>, 2>>, <<<<0, 2, 50, 21>>, 2>>,
      <<<<10, 0, 50, 20>>, 2>> }

MaxPage   == 3
MaxTables == 3

InitMergeVars ==
    /\ all_tables = <<>>
    /\ page_orientations = <<>>
    /\ merged_tables = <<>>
    /\ merge_pc = "idle"

\* Lines 57-73: the next page of the structure map; its orientation is
\* derived from its dimensions.
NextPage ==
    /\ merge_pc = "extract"
    /\ Len(page_orientations) < MaxPage
    /\ \E orientation \in {"portrait", "landscape"} :
           page_orientations' = Append(page_orientations, orientation)
    /\ UNCHANGED <<all_tables, merged_tables, merge_pc, iouVars, dedupVars, cellsVars, groupVars, repairVars, streamVars, textonlyVars, layoutVars, normVars, geomVars, latticeVars, extractVars, saveVars, runVars, hybridVars, alignVars, orientVars>>

\* Lines 90-147: one more lattice table of the current page is extracted and
\* appended to all_tables.
ExtractTable ==
    /\ merge_pc = "extract"
    /\ Len(page_orientations) >= 1
    /\ Len(all_tables) < MaxTables
    /\ LET page_num == Len(page_orientations)
           table_index_on_page ==
               Len(TablesByPage(all_tables, page_num)) + 1
       IN  \E shape \in StitchShapes :
               all_tables' =
                   Append(all_tables,
                          TableInfo(page_num, table_index_on_page, shape[1],
                                    shape[2], page_orientations[page_num]))
    /\ UNCHANGED <<page_orientations, merged_tables, merge_pc, iouVars, dedupVars, cellsVars, groupVars, repairVars, streamVars, textonlyVars, layoutVars, normVars, geomVars, latticeVars, extractVars, saveVars, runVars, hybridVars, alignVars, orientVars>>

\* Lines 157-159: merge_tables is set and there is more than one table
MergeTables ==
    /\ merge_pc = "extract"
    /\ Len(all_tables) > 1
    /\ merged_tables' = merge_cross_page_tables(all_tables)
    /\ merge_pc' = "merged"
    /\ UNCHANGED <<all_tables, page_orientations, iouVars, dedupVars, cellsVars, groupVars, repairVars, streamVars, textonlyVars, layoutVars, normVars, geomVars, latticeVars, extractVars, saveVars, runVars, hybridVars, alignVars, orientVars>>

---------------------------------------------------------------------------
(* lattice_table_detector.py: find_line_intersections, find_closed_cells,   *)
(* group_cells_into_tables, are_cells_adjacent                              *)

\* A line is [x0, top, x1, bottom].  A horizontal line is read through x0,
\* x1 and top, a vertical one through x0, top and bottom.  A point is
\* <<x, y>>, a cell <<<<x1, y1>>, <<x2, y2>>>>.
HLine(x0, x1, top)    == [x0 |-> x0, top |-> top, x1 |-> x1, bottom |-> top]
VLine(x0, top, bottom) == [x0 |-> x0, top |-> top, x1 |-> x0, bottom |-> bottom]

\* Lines 220-242: the intersections, as the set of the distinct points
\* (find_closed_cells reads the list only through set(...))
find_line_intersections(hs, vs) ==
    {<<v.x0, h.top>> : <<h, v>> \in
        {hv \in hs \X vs :
            /\ hv[1].x0 <= hv[2].x0 /\ hv[2].x0 <= hv[1].x1
            /\ hv[2].top <= hv[1].top /\ hv[1].top <= hv[2].bottom}}

\* Line 274: "cell_width < 1 or cell_height < 1".  The lattice coordinates
\* of the model are in half units, so the code's 1 is 2 here.
MinCellSize == 2

\* Lines 278-304
top_edge(hs, x1, y1, x2, y2) ==
    \E h \in hs : h.top = y1 /\ h.x0 <= x1 /\ h.x1 >= x2
bottom_edge(hs, x1, y1, x2, y2) ==
    \E h \in hs : h.top = y2 /\ h.x0 <= x1 /\ h.x1 >= x2
left_edge(vs, x1, y1, x2, y2) ==
    \E v \in vs : v.x0 = x1 /\ v.top <= y1 /\ v.bottom >= y2
right_edge(vs, x1, y1, x2, y2) ==
    \E v \in vs : v.x0 = x2 /\ v.top <= y1 /\ v.bottom >= y2

Count(b) == IF b THEN 1 ELSE 0

\* Line 307
edges_count(hs, vs, x1, y1, x2, y2) ==
    Count(top_edge(hs, x1, y1, x2, y2)) + Count(bottom_edge(hs, x1, y1, x2, y2))
        + Count(left_edge(vs, x1, y1, x2, y2)) + Count(right_edge(vs, x1, y1, x2, y2))

\* Mutant of EnoughEdges: two edges are enough.
EnoughEdgesTwo(n) == n >= 2

\* Line 308
EnoughEdges(n) == n >= 3

\* Mutant of TooSmall: no cell is too small.
TooSmallNever(cell_width, cell_height) == FALSE

\* Line 274
TooSmall(cell_width, cell_height) ==
    cell_width < MinCellSize \/ cell_height < MinCellSize

\* Lines 258-311: the cells between neighbouring coordinates of the
\* intersections, i (over x) outside and j (over y) inside
find_closed_cells(hs, vs, intersections) ==
    LET sorted_x == SortedSeqOf({pt[1] : pt \in intersections})
        sorted_y == SortedSeqOf({pt[2] : pt \in intersections})
        nx == IF Len(sorted_x) = 0 THEN 0 ELSE Len(sorted_x) - 1
        ny == IF Len(sorted_y) = 0 THEN 0 ELSE Len(sorted_y) - 1
        candidates ==
            [k \in 1..(nx * ny) |->
                LET i == ((k - 1) \div ny) + 1
                    j == ((k - 1) % ny) + 1
                IN  <<<<sorted_x[i], sorted_y[j]>>, <<sorted_x[i + 1], sorted_y[j + 1]>>>>]
    IN  SelectSeq(candidates,
            LAMBDA c :
                /\ ~ TooSmall(c[2][1] - c[1][1], c[2][2] - c[1][2])
                /\ EnoughEdges(edges_count(hs, vs, c[1][1], c[1][2], c[2][1], c[2][2])))

\* Mutant of are_cells_adjacent: only cells side by side are adjacent.
are_cells_adjacentSideBySide(cell1, cell2) ==
    /\ (cell1[2][1] = cell2[1][1] \/ cell2[2][1] = cell1[1][1])
    /\ Max(cell1[1][2], cell2[1][2]) < Min(cell1[2][2], cell2[2][2])

\* Lines 358-393
are_cells_adjacent(cell1, cell2) ==
    LET x1_1 == cell1[1][1]  y1_1 == cell1[1][2]
        x2_1 == cell1[2][1]  y2_1 == cell1[2][2]
        x1_2 == cell2[1][1]  y1_2 == cell2[1][2]
        x2_2 == cell2[2][1]  y2_2 == cell2[2][2]
        corners1 == {<<x1_1, y1_1>>, <<x2_1, y1_1>>, <<x1_1, y2_1>>, <<x2_1, y2_1>>}
        corners2 == {<<x1_2, y1_2>>, <<x2_2, y1_2>>, <<x1_2, y2_2>>, <<x2_2, y2_2>>}
    IN  \/ (x2_1 = x1_2 \/ x2_2 = x1_1) /\ Max(y1_1, y1_2) < Min(y2_1, y2_2)
        \/ (y2_1 = y1_2 \/ y2_2 = y1_1) /\ Max(x1_1, x1_2) < Min(x2_1, x2_2)
        \/ corners1 \cap corners2 # {}

\* Lines 329-334: find, with its path compression: the root of the cell and
\* the parent map it leaves behind
RECURSIVE find(_, _)
find(parent, cell) ==
    IF parent[cell] = cell THEN [root |-> cell, parent |-> parent]
    ELSE LET r == find(parent, parent[cell])
         IN  [root |-> r.root, parent |-> [r.parent EXCEPT ![cell] = r.root]]

\* Lines 336-337: parent[find(cell1)] = find(cell2); the right-hand side is
\* evaluated first
union(parent, cell1, cell2) ==
    LET r2 == find(parent, cell2)
        r1 == find(r2.parent, cell1)
    IN  [r1.parent EXCEPT ![r1.root] = r2.root]

\* Mutant of UnionIfAdjacent: the cells are united whether adjacent or not.
UnionAlways(parent, cell1, cell2) == union(parent, cell1, cell2)

\* Lines 347-348
UnionIfAdjacent(parent, cell1, cell2) ==
    IF are_cells_adjacent(cell1, cell2) THEN union(parent, cell1, cell2) ELSE parent

\* Lines 344-348: the loop over the pairs i < j, from the pair (i, j) on;
\* the parent map of a step is computed before the next step is taken
RECURSIVE UnionPairs(_, _, _, _)
UnionPairs(cs, i, j, parent) ==
    IF i > Len(cs) THEN parent
    ELSE IF j > Len(cs) THEN UnionPairs(cs, i + 1, i + 2, parent)
    ELSE LET united == UnionIfAdjacent(parent, cs[i], cs[j])
         IN  IF united = parent THEN UnionPairs(cs, i, j + 1, parent)
             ELSE UnionPairs(cs, i, j + 1, united)

\* Lines 351-353: groups[find(cell)].append(cell), the groups kept in the
\* order in which their roots first appear.  st = [parent, roots, groups].
RECURSIVE CollectGroups(_, _, _)
CollectGroups(cs, k, st) ==
    IF k > Len(cs) THEN st.groups
    ELSE LET r == find(st.parent, cs[k])
             known == {n \in 1..Len(st.roots) : st.roots[n] = r.root}
         IN  IF known = {}
             THEN CollectGroups(cs, k + 1,
                      [parent |-> r.parent,
                       roots  |-> Append(st.roots, r.root),
                       groups |-> Append(st.groups, <<cs[k]>>)])
             ELSE LET n == CHOOSE n \in known : TRUE
                  IN  CollectGroups(cs, k + 1,
                          [parent |-> r.parent,
                           roots  |-> st.roots,
                           groups |-> [st.groups EXCEPT ![n] = Append(@, cs[k])]])

\* Lines 313-356
group_cells_into_tables(cs) ==
    IF Len(cs) = 0 THEN <<>>
    ELSE LET cellset == {cs[k] : k \in 1..Len(cs)}
             parent0 == [c \in cellset |-> c]
             parent1 == UnionPairs(cs, 1, 2, parent0)
             all_groups == CollectGroups(cs, 1,
                               [parent |-> parent1, roots |-> <<>>, groups |-> <<>>])
         IN  SelectSeq(all_groups, LAMBDA g : Len(g) >= 2)

\* The lines of the model: x over 0, 1/2, 1 and 2 units, y over 0, 1/2 and
\* 1 unit, every horizontal line of positive length at every y and every
\* vertical line of positive length at every x.
LatticeX == {0, 1, 2, 4}
LatticeY == {0, 1, 2}
HLines == {HLine(x0, x1, y) : <<x0, x1, y>> \in
              {t \in LatticeX \X LatticeX \X LatticeY : t[1] < t[2]}}
VLines == {VLine(x, y0, y1) : <<x, y0, y1>> \in
              {t \in LatticeX \X LatticeY \X LatticeY : t[2] < t[3]}}

MaxHLines == 2
MaxVLines == 2

SubsetsUpTo(S, n) == {T \in SUBSET S : Cardinality(T) <= n}

InitCellsVars ==
    /\ h_lines = {}
    /\ v_lines = {}
    /\ cells = <<>>
    /\ cells_pc = "idle"

\* find_lattice_tables, lines 54-63
FindClosedCells ==
    /\ cells_pc = "start"
    /\ LET intersections == find_line_intersections(h_lines, v_lines)
       IN  cells' = find_closed_cells(h_lines, v_lines, intersections)
    /\ cells_pc' = "done"
    /\ UNCHANGED <<h_lines, v_lines, groupVars, iouVars, dedupVars, mergeVars, repairVars, streamVars, textonlyVars, layoutVars, normVars, geomVars, latticeVars, extractVars, saveVars, runVars, hybridVars, alignVars, orientVars>>

\* The cells of the grouping model: the unit cells of a GridW x GridH grid,
\* in any order and with repetitions.
GridW == 3
GridH == 2
MaxCells == 3
GridCells ==
    {<<<<x, y>>, <<x + 1, y + 1>>>> : x \in 0..(GridW - 1), y \in 0..(GridH - 1)}

InitGroupVars ==
    /\ group_cells = <<>>
    /\ cell_groups = <<>>
    /\ group_pc = "idle"

\* find_lattice_tables, line 71
GroupCells ==
    /\ group_pc = "start"
    /\ cell_groups' = group_cells_into_tables(group_cells)
    /\ group_pc' = "done"
    /\ UNCHANGED <<group_cells, cellsVars, iouVars, dedupVars, mergeVars, repairVars, streamVars, textonlyVars, layoutVars, normVars, geomVars, latticeVars, extractVars, saveVars, runVars, hybridVars, alignVars, orientVars>>

---------------------------------------------------------------------------
(* lattice_table.py: fix_centered_text_issues and remove_empty_columns *)

\* A cell of a grid is a Python value: None or a str.
None   == [type |-> "NoneType"]
Str(s) == [type |-> "str", value |-> s]

\* str.strip(), on the strings of the model
strip(s) == IF s \in {"", " "} THEN "" ELSE s

\* Lines 441-445
is_empty_cell(cell) == cell = None \/ (cell.type = "str" /\ strip(cell.value) = "")

\* Lines 448-455; col_idx counts from 0 as in the code
is_empty_column(table, col_idx) ==
    \A r \in 1..Len(table) :
        col_idx < Len(table[r]) => is_empty_cell(table[r][col_idx + 1])

\* Line 470
current_cols(table) ==
    CHOOSE n \in {Len(table[r]) : r \in 1..Len(table)} :
        \A r \in 1..Len(table) : Len(table[r]) <= n

\* Lines 480-494: the while loop over one row, from col_idx on
RECURSIVE FixRow(_, _)
FixRow(row, col_idx) ==
    IF ~ (col_idx < Len(row) - 2) THEN row
    ELSE IF /\ is_empty_cell(row[col_idx + 1])
            /\ ~ is_empty_cell(row[col_idx + 2])
            /\ col_idx + 2 < Len(row)
            /\ is_empty_cell(row[col_idx + 3])
         THEN FixRow([row EXCEPT ![col_idx + 1] = row[col_idx + 2],
                                 ![col_idx + 2] = None],
                     col_idx + 3)
         ELSE FixRow(row, col_idx + 1)

\* Mutant of EmptyCols: a column counts as empty when its cell of the first
\* row is empty.
EmptyColsOfFirstRow(table, ncols) ==
    {c \in 0..(ncols - 1) : is_empty_column(<<table[1]>>, c)}

\* Lines 498-501
EmptyCols(table, ncols) == {c \in 0..(ncols - 1) : is_empty_column(table, c)}

\* Lines 517-522: the cells of the row whose column is not in empty_cols
RECURSIVE NewRow(_, _, _)
NewRow(row, empty_cols, col_idx) ==
    IF col_idx >= Len(row) THEN <<>>
    ELSE IF col_idx \notin empty_cols
         THEN <<row[col_idx + 1]>> \o NewRow(row, empty_cols, col_idx + 1)
         ELSE NewRow(row, empty_cols, col_idx + 1)

\* Lines 509-524
remove_empty_columns(table, empty_cols) ==
    IF empty_cols = {} THEN table
    ELSE [r \in 1..Len(table) |-> NewRow(table[r], empty_cols, 0)]

\* Lines 477-494: the copy of the table after the loop over its rows
RepairRows(table) == [r \in 1..Len(table) |-> FixRow(table[r], 0)]

\* Line 473
NeedsRepair(table, estimate) == ~ (Abs(current_cols(table) - estimate) <= 1)

\* Lines 458-506
fix_centered_text_issues(table, estimate) ==
    IF Len(table) = 0 THEN table
    ELSE IF ~ NeedsRepair(table, estimate) THEN table
    ELSE LET processed == RepairRows(table)
         IN  remove_empty_columns(processed, EmptyCols(processed, current_cols(table)))

\* The grids of the model: extract_table gives a rectangular grid; a cell
\* is the empty string or the text of its column.  The estimates are the
\* two smallest that estimate_table_columns returns (lines 413, 438).
ColumnText == <<"W", "X", "Z", "Y", "V", "U", "T">>
MaxRows == 2
MaxCols == 5
EstimatedCols == {2, 3}
RowsOver(ncols) ==
    {[c \in 1..ncols |-> IF c \in filled THEN Str(ColumnText[c]) ELSE Str("")] :
        filled \in SUBSET (1..ncols)}
Grids ==
    UNION {[1..nrows -> RowsOver(ncols)] : nrows \in 1..MaxRows, ncols \in 1..MaxCols}

InitRepairVars ==
    /\ table_data = <<>>
    /\ estimated_cols = 0
    /\ fixed_table = <<>>
    /\ repair_pc = "idle"

\* extract_lattice_tables, line 130
FixCenteredText ==
    /\ repair_pc = "start"
    /\ fixed_table' = fix_centered_text_issues(table_data, estimated_cols)
    /\ repair_pc' = "done"
    /\ UNCHANGED <<table_data, estimated_cols, cellsVars, groupVars, iouVars,
                   dedupVars, mergeVars, streamVars, textonlyVars, layoutVars, normVars, geomVars, latticeVars, extractVars, saveVars, runVars, hybridVars, alignVars, orientVars>>

---------------------------------------------------------------------------
(* stream_table.py: extract_stream_tables, the placement of the words *)

\* A word is [text, x0, x1]; a row of words is sorted by x0 (line 106).

\* Lines 110-119: the largest number of words in a row
max_words_count(rows) ==
    IF Len(rows) = 0 THEN 0
    ELSE CHOOSE n \in {Len(rows[r]) : r \in 1..Len(rows)} :
             \A r \in 1..Len(rows) : Len(rows[r]) <= n

\* Lines 113-119: the rows with that many words, the standard rows
max_words_rows(rows) ==
    {r \in 1..Len(rows) : Len(rows[r]) = max_words_count(rows)}

\* Lines 129-146: the boundaries (min x0, max x1) of each column, taken
\* from the words of the standard rows at the column's position
column_boundaries(rows) ==
    [i \in 1..max_words_count(rows) |->
        LET x0s == {rows[r][i].x0 : r \in max_words_rows(rows)}
            x1s == {rows[r][i].x1 : r \in max_words_rows(rows)}
        IN  <<CHOOSE a \in x0s : \A b \in x0s : a <= b,
              CHOOSE a \in x1s : \A b \in x1s : a >= b>>]

\* Lines 172-175 and 199-202: the text is put into the cell, after a space
\* when the cell is not empty
PutText(processed_row, col_idx, text) ==
    [processed_row EXCEPT ![col_idx] = IF @ # "" THEN @ \o " " \o text ELSE text]

\* Lines 170-171: the columns whose boundaries hold the word, within 1 unit
StandardColumns(bounds, word) ==
    {c \in 1..Len(bounds) : word.x0 >= bounds[c][1] - 1 /\ word.x1 <= bounds[c][2] + 1}

\* Lines 188-190
Overlap(bounds, word, c) ==
    Max(0, Min(word.x1, bounds[c][2]) - Max(word.x0, bounds[c][1]))

\* Lines 183-195: the first column with the largest overlap, 0 (the code's
\* -1) when no column overlaps the word
best_col_idx(bounds, word) ==
    LET cols == {c \in 1..Len(bounds) : Overlap(bounds, word, c) > 0}
    IN  IF cols = {} THEN 0
        ELSE CHOOSE c \in cols :
                 \A d \in cols :
                     \/ Overlap(bounds, word, c) > Overlap(bounds, word, d)
                     \/ Overlap(bounds, word, c) = Overlap(bounds, word, d) /\ c <= d

\* Lines 163-205: the words of one row from the k-th on, on the state
\* st = [row, warnings]; a warning is <<row_idx, text>>
RECURSIVE PlaceWords(_, _, _, _, _, _)
PlaceWords(bounds, words_in_row, row_idx, is_standard_row, k, st) ==
    IF k > Len(words_in_row) THEN st
    ELSE LET word == words_in_row[k]
             col  == IF is_standard_row
                     THEN IF StandardColumns(bounds, word) = {} THEN 0
                          ELSE CHOOSE c \in StandardColumns(bounds, word) :
                                   \A d \in StandardColumns(bounds, word) : c <= d
                     ELSE best_col_idx(bounds, word)
         IN  PlaceWords(bounds, words_in_row, row_idx, is_standard_row, k + 1,
                 IF col = 0
                 THEN [st EXCEPT !.warnings = Append(@, <<row_idx, word.text>>)]
                 ELSE [st EXCEPT !.row = PutText(@, col, word.text)])

\* Lines 157-208: the rows from row_idx on; st = [table, warnings]
RECURSIVE PlaceRows(_, _, _, _)
PlaceRows(bounds, rows, row_idx, st) ==
    IF row_idx > Len(rows) THEN st
    ELSE LET placed == PlaceWords(bounds, rows[row_idx], row_idx,
                           Len(rows[row_idx]) = max_words_count(rows), 1,
                           [row |-> [c \in 1..Len(bounds) |-> ""],
                            warnings |-> st.warnings])
         IN  PlaceRows(bounds, rows, row_idx + 1,
                 [table |-> Append(st.table, placed.row), warnings |-> placed.warnings])

\* The words of the model, as (x0, x1): two columns (0, 10) and (20, 30),
\* two short words (0, 5) and (6, 9) side by side within the first, and a
\* word (12, 18) between the columns.  The text of a word tells its row and
\* its position in the row.
WordSpans == {<<0, 10>>, <<20, 30>>, <<0, 5>>, <<6, 9>>, <<12, 18>>}
WordText  == <<<<"a", "b", "c", "d">>, <<"e", "f", "g", "h">>,
               <<"i", "j", "k", "l">>, <<"m", "n", "o", "p">>>>
MaxWordRows == 2
MaxWords    == 2

\* the rows of spans sorted by x0, the words of a row apart from each other
SpanRows ==
    {row \in SeqsUpTo(WordSpans, MaxWords) :
        \A k \in 1..(Len(row) - 1) : row[k][2] < row[k + 1][1]}

WordRow(spans, r) ==
    [k \in 1..Len(spans) |-> [text |-> WordText[r][k], x0 |-> spans[k][1], x1 |-> spans[k][2]]]

WordRowsSet ==
    {[r \in 1..Len(t) |-> WordRow(t[r], r)] :
        t \in SeqsUpTo(SpanRows, MaxWordRows) \ {<<>>}}

InitStreamVars ==
    /\ word_rows = <<>>
    /\ stream_table = <<>>
    /\ stream_warnings = <<>>
    /\ stream_pc = "idle"

\* Lines 109-208: the table is skipped when no row has a word (line 121),
\* else every row is placed
PlaceStreamTable ==
    /\ stream_pc = "start"
    /\ IF max_words_count(word_rows) = 0
       THEN /\ stream_pc' = "skipped"
            /\ UNCHANGED <<stream_table, stream_warnings>>
       ELSE LET st == PlaceRows(column_boundaries(word_rows), word_rows, 1,
                          [table |-> <<>>, warnings |-> <<>>])
            IN  /\ stream_table' = st.table
                /\ stream_warnings' = st.warnings
                /\ stream_pc' = "done"
    /\ UNCHANGED <<word_rows, repairVars, cellsVars, groupVars, iouVars,
                   dedupVars, mergeVars, textonlyVars, layoutVars, normVars, geomVars, latticeVars, extractVars, saveVars, runVars, hybridVars, alignVars, orientVars>>

---------------------------------------------------------------------------
(* text_only.py: extract_text_only_tables, the placement of the words *)

\* Lines 57-68: the sorted x of the virtual vertical lines, with the table's
\* left edge in front when the first is more than 5 from it and the table's
\* right edge behind when the last is more than 5 from it; the two edges
\* alone when there is no virtual line
column_separators(bbox, xs) ==
    LET sorted == SortedSeqOf(xs)
    IN  IF Len(sorted) = 0 THEN <<bbox[1], bbox[3]>>
        ELSE LET withLeft == IF sorted[1] > bbox[1] + 5
                             THEN <<bbox[1]>> \o sorted ELSE sorted
             IN  IF withLeft[Len(withLeft)] < bbox[3] - 5
                 THEN Append(withLeft, bbox[3]) ELSE withLeft

\* Lines 127-134: the number of separators, from the second on, passed
\* before one lies right of the word's centre ((x0 + x1) / 2 < separator,
\* doubled on both sides); i is the position of the separator from 1
RECURSIVE col_idx_from(_, _, _)
col_idx_from(seps, word, i) ==
    IF i > Len(seps) THEN 0
    ELSE IF word.x0 + word.x1 < 2 * seps[i] THEN 0
    ELSE 1 + col_idx_from(seps, word, i + 1)

\* Lines 137-141: col_idx counts from 0
TextOnlyPut(processed_row, col_idx, text) ==
    IF col_idx < Len(processed_row) THEN PutText(processed_row, col_idx + 1, text)
    ELSE processed_row

\* Lines 122-141: the words of one row from the k-th on
RECURSIVE TextOnlyRow(_, _, _, _)
TextOnlyRow(seps, words_in_row, k, processed_row) ==
    IF k > Len(words_in_row) THEN processed_row
    ELSE TextOnlyRow(seps, words_in_row, k + 1,
             TextOnlyPut(processed_row, col_idx_from(seps, words_in_row[k], 2),
                         words_in_row[k].text))

\* Lines 118-143
TextOnlyTable(seps, rows) ==
    [r \in 1..Len(rows) |->
        TextOnlyRow(seps, rows[r], 1, [c \in 1..(Len(seps) - 1) |-> ""])]

\* The tables of the model: the bbox (10, 0, 50, 20); virtual lines among
\* x = 12 (within 5 of the left edge), 30 and 47 (within 5 of the right
\* edge); words, as (x0, x1), within 5 of the table's edges: (10, 20) and
\* (32, 44) inside, (26, 34) with its centre on the line at 30, (5, 10)
\* left of the table and (50, 55) right of it.
TextOnlyBbox  == <<10, 0, 50, 20>>
VirtualLineXs == {12, 30, 47}
TextOnlySpans == {<<10, 20>>, <<32, 44>>, <<26, 34>>, <<5, 10>>, <<50, 55>>}

TextOnlySpanRows ==
    {row \in SeqsUpTo(TextOnlySpans, MaxWords) :
        \A k \in 1..(Len(row) - 1) : row[k][2] < row[k + 1][1]}

TextOnlyRowsSet ==
    {[r \in 1..Len(t) |-> WordRow(t[r], r)] :
        t \in SeqsUpTo(TextOnlySpanRows, MaxWordRows) \ {<<>>}}

InitTextOnlyVars ==
    /\ to_bbox = <<0, 0, 0, 0>>
    /\ virtual_lines = {}
    /\ to_rows = <<>>
    /\ to_table = <<>>
    /\ to_warnings = <<>>
    /\ to_pc = "idle"

\* Lines 44-143: the separators, the warning of line 61 (a warning is
\* <<row, text>>, row 0 for the table as a whole) and the grid
PlaceTextOnlyTable ==
    /\ to_pc = "start"
    /\ to_table' = TextOnlyTable(column_separators(to_bbox, virtual_lines), to_rows)
    /\ to_warnings' = IF virtual_lines = {}
                      THEN <<<<0, "no vertical lines">>>> ELSE <<>>
    /\ to_pc' = "done"
    /\ UNCHANGED <<to_bbox, virtual_lines, to_rows, iouVars, dedupVars, mergeVars, cellsVars, groupVars,
                   repairVars, streamVars, layoutVars, normVars, geomVars, latticeVars, extractVars, saveVars, runVars, hybridVars, alignVars, orientVars>>

---------------------------------------------------------------------------
(* build_structure_map.py: analyze_page_layout, lines 202-244 *)

\* the threshold of line 229, 0.8, as the fraction 8/10
InsideIouNum == 8
InsideIouDen == 10

TextBlock(bbox) == [type |-> "text_block", bbox |-> bbox]

\* Mutant of IsInsideTable: only the first table is looked at.
IsInsideTableFirstOnly(bbox, final_table_bboxes, j) ==
    IF j > Len(final_table_bboxes) THEN "no"
    ELSE LET r == calculate_iou(bbox, final_table_bboxes[j])
         IN  IF r.kind = "ZeroDivisionError" THEN "raise"
             ELSE IF FloatGt(r, InsideIouNum, InsideIouDen) THEN "yes"
             ELSE "no"

\* Lines 228-231: the scan of the final tables for one text block: "yes" at
\* the first IoU above the threshold, "raise" if calculate_iou raises before
\* that, "no" when the list is exhausted
RECURSIVE IsInsideTable(_, _, _)
IsInsideTable(bbox, final_table_bboxes, j) ==
    IF j > Len(final_table_bboxes) THEN "no"
    ELSE LET r == calculate_iou(bbox, final_table_bboxes[j])
         IN  IF r.kind = "ZeroDivisionError" THEN "raise"
             ELSE IF FloatGt(r, InsideIouNum, InsideIouDen) THEN "yes"
             ELSE IsInsideTable(bbox, final_table_bboxes, j + 1)

\* Lines 224-233: the text blocks from the k-th on; the result is
\* [pc, elements], pc "raised" when calculate_iou raised on the way
RECURSIVE KeepElements(_, _, _, _)
KeepElements(blocks, final_table_bboxes, k, acc) ==
    IF k > Len(blocks) THEN [pc |-> "done", elements |-> acc]
    ELSE LET o == IsInsideTable(blocks[k], final_table_bboxes, 1)
         IN  IF o = "raise" THEN [pc |-> "raised", elements |-> <<>>]
             ELSE IF o = "yes"
                  THEN KeepElements(blocks, final_table_bboxes, k + 1, acc)
                  ELSE KeepElements(blocks, final_table_bboxes, k + 1,
                                    Append(acc, TextBlock(blocks[k])))

\* Line 237: sort(key=bbox[1]), a stable sort
InsertByTop(sorted, el) ==
    LET n == Cardinality({i \in 1..Len(sorted) : sorted[i].bbox[2] <= el.bbox[2]})
    IN  SubSeq(sorted, 1, n) \o <<el>> \o SubSeq(sorted, n + 1, Len(sorted))

RECURSIVE SortByTop(_, _, _)
SortByTop(elements, k, sorted) ==
    IF k > Len(elements) THEN sorted
    ELSE SortByTop(elements, k + 1, InsertByTop(sorted, elements[k]))

\* Lines 202-244: [pc, tables, elements]
analyze_page_layout(geo_bboxes, text_bboxes, blocks) ==
    LET d == Deduplicate(geo_bboxes, text_bboxes, 1,
                 [i \in 1..Len(geo_bboxes) |-> GeoTable(geo_bboxes[i])])
    IN  IF d.pc = "raised" THEN [pc |-> "raised", tables |-> <<>>, elements |-> <<>>]
        ELSE LET kept == KeepElements(blocks,
                             [i \in 1..Len(d.tables) |-> d.tables[i].bbox], 1, <<>>)
             IN  IF kept.pc = "raised"
                 THEN [pc |-> "raised", tables |-> <<>>, elements |-> <<>>]
                 ELSE [pc |-> "done", tables |-> d.tables,
                       elements |-> SortByTop(kept.elements \o d.tables, 1, <<>>)]

\* The bboxes of the layout model: A = (0, 10), B = (1, 10) and C = (2, 10)
\* of height 1, whose IoU with each other are 9/10, 8/10 (the threshold
\* itself) and 8/9; Z, A with height 0; D apart from them and lower.
LayoutBoxes ==
    {<<0, 0, 10, 1>>, <<1, 0, 10, 1>>, <<2, 0, 10, 1>>, <<0, 0, 10, 0>>,
     <<20, 2, 30, 3>>}

MaxTextBlocks == 1

InitLayoutVars ==
    /\ text_blocks = <<>>
    /\ elements_to_keep = <<>>
    /\ layout_pc = "idle"

\* analyze_page_layout from step 4 on: the final tables, the elements kept
\* and their order; a raised ZeroDivisionError ends the call
AnalyzePageLayout ==
    /\ layout_pc = "start"
    /\ LET r == analyze_page_layout(geometric_tables, text_table_bboxes, text_blocks)
       IN  /\ final_tables' = r.tables
           /\ elements_to_keep' = r.elements
           /\ layout_pc' = r.pc
    /\ UNCHANGED <<geometric_tables, text_table_bboxes, dedup_pc, text_blocks,
                   iouVars, mergeVars, cellsVars, groupVars, repairVars,
                   streamVars, textonlyVars, normVars, geomVars, latticeVars, extractVars, saveVars, runVars, hybridVars, alignVars, orientVars>>

---------------------------------------------------------------------------
(* build_structure_map.py: analyze_page_layout, the words (lines 52-64 and
   155-184) *)

Word(x0, x1, top, bottom, text) ==
    [x0 |-> x0, x1 |-> x1, top |-> top, bottom |-> bottom, text |-> text]

\* Line 52: key (top, x0)
ByTopThenX0(a, b) == a.top < b.top \/ (a.top = b.top /\ a.x0 < b.x0)
\* Line 157: key x0
ByX0(a, b) == a.x0 < b.x0

\* the strict order of two words under a sort key
LtKey(a, b, key) == IF key = "top_x0" THEN ByTopThenX0(a, b) ELSE ByX0(a, b)

\* A stable sort by a key, as sorted() and list.sort() are
InsertWord(sorted, w, key) ==
    LET n == Cardinality({i \in 1..Len(sorted) : ~ LtKey(w, sorted[i], key)})
    IN  SubSeq(sorted, 1, n) \o <<w>> \o SubSeq(sorted, n + 1, Len(sorted))

RECURSIVE SortWords(_, _, _, _)
SortWords(ws, k, sorted, key) ==
    IF k > Len(ws) THEN sorted
    ELSE SortWords(ws, k + 1, InsertWord(sorted, ws[k], key), key)

\* Lines 56 and 63: |dtop| < line_height_tolerance, the tolerance being
\* (bottom - top) * 0.7 of the word that opened the line, or 5
WithinLineHeight(dtop, opener) ==
    IF opener.bottom > opener.top
    THEN 10 * Abs(dtop) < 7 * (opener.bottom - opener.top)
    ELSE Abs(dtop) < 5

\* Lines 57-63: the sorted words from the k-th on, current_line being the
\* open line and opener the word its tolerance was taken from
RECURSIVE ClusterLines(_, _, _, _, _)
ClusterLines(ws, k, current_line, opener, acc) ==
    IF k > Len(ws) THEN Append(acc, current_line)
    ELSE IF WithinLineHeight(ws[k].top - current_line[Len(current_line)].top, opener)
         THEN ClusterLines(ws, k + 1, Append(current_line, ws[k]), opener, acc)
         ELSE ClusterLines(ws, k + 1, <<ws[k]>>, ws[k], Append(acc, current_line))

\* Lines 52-64
cluster_words(ws) ==
    LET sorted == SortWords(ws, 1, <<>>, "top_x0")
    IN  IF sorted = <<>> THEN <<>>
        ELSE ClusterLines(sorted, 2, <<sorted[1]>>, sorted[1], <<>>)

\* Lines 163-167: gap < avg_char_width * 0.5 and the tops less than 5 apart
ShouldAbsorb(current_merge, next_word) ==
    LET current_word_width == current_merge.x1 - current_merge.x0
        num_chars == Len(current_merge.text)
        gap == next_word.x0 - current_merge.x1
    IN  /\ IF num_chars > 0 THEN 2 * gap * num_chars < current_word_width
                            ELSE 2 * gap < 5
        /\ Abs(next_word.top - current_merge.top) < 5

\* Lines 168-170: text, x1 and bottom are updated, x0 and top are not
Absorb(current_merge, next_word) ==
    [current_merge EXCEPT !.text = @ \o next_word.text,
                          !.x1 = Max(@, next_word.x1),
                          !.bottom = Max(@, next_word.bottom)]

\* Lines 160-174: the words of a cluster sorted by x0, from the k-th on
RECURSIVE MergeWords(_, _, _, _)
MergeWords(sorted_cluster, k, current_merge, merged_word_objects) ==
    IF k > Len(sorted_cluster) THEN Append(merged_word_objects, current_merge)
    ELSE IF ShouldAbsorb(current_merge, sorted_cluster[k])
         THEN MergeWords(sorted_cluster, k + 1,
                         Absorb(current_merge, sorted_cluster[k]), merged_word_objects)
         ELSE MergeWords(sorted_cluster, k + 1, sorted_cluster[k],
                         Append(merged_word_objects, current_merge))

RECURSIVE JoinedText(_, _)
JoinedText(ws, k) ==
    IF k > Len(ws) THEN ""
    ELSE IF k = Len(ws) THEN ws[k].text
    ELSE ws[k].text \o " " \o JoinedText(ws, k + 1)

MinOf(S) == CHOOSE x \in S : \A y \in S : x <= y
MaxOf(S) == CHOOSE x \in S : \A y \in S : x >= y

\* Lines 155-184: the text block of one line cluster
text_block(word_cluster) ==
    LET sorted_cluster == SortWords(word_cluster, 1, <<>>, "x0")
        merged == MergeWords(sorted_cluster, 2, sorted_cluster[1], <<>>)
        idx == 1..Len(merged)
    IN  [type |-> "text_block",
         bbox |-> << MinOf({merged[i].x0 : i \in idx}), MinOf({merged[i].top : i \in idx}),
                     MaxOf({merged[i].x1 : i \in idx}), MaxOf({merged[i].bottom : i \in idx}) >>,
         text |-> JoinedText(merged, 1),
         words |-> merged]

\* The words of the model: on one line "ab", then "c" right after it
\* (absorbed), level or raised by 2, and "d" further right (not absorbed);
\* "e" on a line below; "f" of no height on a third line.
NormWords ==
    { Word(0, 10, 10, 20, "ab"), Word(11, 20, 10, 20, "c"), Word(11, 20, 8, 18, "c"),
      Word(30, 40, 10, 20, "d"), Word(0, 10, 30, 40, "e"), Word(12, 20, 50, 50, "f") }

MaxNormWords == 3

\* the lists of distinct words
WordLists ==
    {ws \in SeqsUpTo(NormWords, MaxNormWords) :
        \A i, j \in 1..Len(ws) : i # j => ws[i] # ws[j]}

InitNormVars ==
    /\ page_words = <<>>
    /\ line_clusters = <<>>
    /\ word_blocks = <<>>
    /\ norm_pc = "idle"

\* Step 1 of analyze_page_layout: the words are clustered into lines and
\* every line becomes one text block
NormalizeWords ==
    /\ norm_pc = "start"
    /\ line_clusters' = cluster_words(page_words)
    /\ word_blocks' = [i \in 1..Len(cluster_words(page_words)) |->
                          text_block(cluster_words(page_words)[i])]
    /\ norm_pc' = "done"
    /\ UNCHANGED <<page_words, iouVars, dedupVars, mergeVars, cellsVars, groupVars,
                   repairVars, streamVars, textonlyVars, layoutVars, geomVars, latticeVars, extractVars, saveVars, runVars, hybridVars, alignVars, orientVars>>

---------------------------------------------------------------------------
(* build_structure_map.py lines 69-153 and geometric_table_finder.py lines
   20-63: the line and rectangle records.  A record is a function from the
   names of the fields it has. *)

\* dict.get(f, default)
Get(r, f, default) == IF f \in DOMAIN r THEN r[f] ELSE default

\* r[f] = v on the record itself
SetField(r, f, v) == [g \in DOMAIN r \cup {f} |-> IF g = f THEN v ELSE r[g]]

\* build_structure_map.py lines 81-93 and 126-138: width and height
ElementWidth(r) ==
    IF "width" \in DOMAIN r THEN r.width
    ELSE IF "x0" \in DOMAIN r /\ "x1" \in DOMAIN r THEN r.x1 - r.x0 ELSE 0
ElementHeight(r) ==
    IF "height" \in DOMAIN r THEN r.height
    ELSE IF "top" \in DOMAIN r /\ "bottom" \in DOMAIN r THEN r.bottom - r.top ELSE 0

\* build_structure_map.py lines 71-111: the page element of a line
line_element(line) ==
    LET x0 == Get(line, "x0", 0)
        top == Get(line, "top", 0)
        x1 == Get(line, "x1", 0)
        bottom == Get(line, "bottom", Get(line, "top", 0))
        width == ElementWidth(line)
        height == ElementHeight(line)
    IN  [type |-> "line", bbox |-> <<x0, top, x1, bottom>>,
         x0 |-> x0, top |-> top, x1 |-> x1, bottom |-> bottom,
         width |-> width, height |-> height,
         geom_type |-> IF x0 = x1 THEN "line_vertical"
                       ELSE IF top = bottom THEN "line_horizontal"
                       ELSE IF width > height THEN "line_horizontal"
                       ELSE "line_vertical"]

\* build_structure_map.py lines 114-153: the page element of a rectangle
rect_element(rect) ==
    LET x0 == Get(rect, "x0", 0)
        top == Get(rect, "top", 0)
        x1 == Get(rect, "x1", 0)
        bottom == Get(rect, "bottom", Get(rect, "top", 0))
        width == ElementWidth(rect)
        height == ElementHeight(rect)
    IN  [type |-> "rect", bbox |-> <<x0, top, x1, bottom>>,
         x0 |-> x0, top |-> top, x1 |-> x1, bottom |-> bottom,
         width |-> width, height |-> height,
         geom_type |-> IF width > 5 /\ height <= 1 THEN "line_horizontal"
                       ELSE IF height > 5 /\ width <= 1 THEN "line_vertical"
                       ELSE "rect"]

\* geometric_table_finder.py line 26: r['width'] and r['height'] are read
\* of every rectangle, and raise KeyError when the field is missing
ThinRectsRaises(rects) ==
    \E i \in 1..Len(rects) : "width" \notin DOMAIN rects[i] \/ "height" \notin DOMAIN rects[i]

\* geometric_table_finder.py lines 34-46: the line after its iteration
ClassifiedLine(l) ==
    LET width == l.x1 - l.x0
        height == Get(l, "bottom", l.top) - l.top
    IN  IF "geom_type" \notin DOMAIN l \/ l.geom_type = "line"
        THEN SetField(l, "geom_type",
                 IF l.x0 = l.x1 THEN "line_vertical"
                 ELSE IF l.top = Get(l, "bottom", l.top) THEN "line_horizontal"
                 ELSE IF width > height THEN "line_horizontal"
                 ELSE "line_vertical")
        ELSE l

\* geometric_table_finder.py lines 52-59: the rectangle after its iteration
ClassifiedRect(r) ==
    SetField(r, "geom_type",
        IF r.width > 5 /\ r.height <= 1 THEN "line_horizontal"
        ELSE IF r.height > 5 /\ r.width <= 1 THEN "line_vertical"
        ELSE "rect")

\* The line records of the model: a horizontal line with all its fields,
\* one with neither bottom, width nor height, a slanted one whose geom_type
\* is 'line', and a vertical one that has its geom_type already.
LineRecords ==
    { [x0 |-> 0, x1 |-> 10, top |-> 5, bottom |-> 5, width |-> 10, height |-> 0],
      [x0 |-> 0, x1 |-> 10, top |-> 5],
      [x0 |-> 0, x1 |-> 10, top |-> 0, bottom |-> 4, geom_type |-> "line"],
      [x0 |-> 3, x1 |-> 3, top |-> 0, bottom |-> 10, width |-> 0, height |-> 10,
       geom_type |-> "line_vertical"] }

\* The rectangle records of the model: a box, a flat one, a narrow one, and
\* boxes without bottom, without height, without width and height.
RectRecords ==
    { [x0 |-> 0, top |-> 0, x1 |-> 10, bottom |-> 10, width |-> 10, height |-> 10],
      [x0 |-> 0, top |-> 0, x1 |-> 10, bottom |-> 1, width |-> 10, height |-> 1],
      [x0 |-> 0, top |-> 0, x1 |-> 1, bottom |-> 10, width |-> 1, height |-> 10],
      [x0 |-> 0, top |-> 0, x1 |-> 10, width |-> 10, height |-> 0],
      [x0 |-> 0, top |-> 0, x1 |-> 10, bottom |-> 10, width |-> 10],
      [x0 |-> 0, top |-> 0, x1 |-> 10, bottom |-> 10] }

MaxLineRecords == 2
MaxRectRecords == 2

InitGeomVars ==
    /\ page_lines = <<>>
    /\ page_rects = <<>>
    /\ page_elements = <<>>
    /\ all_geoms = <<>>
    /\ geom_pc = "idle"

\* build_structure_map.py lines 69-153: the page elements of the lines and
\* of the rectangles
NormalizeGeoms ==
    /\ geom_pc = "start"
    /\ page_elements' = [i \in 1..Len(page_lines) |-> line_element(page_lines[i])]
                        \o [i \in 1..Len(page_rects) |-> rect_element(page_rects[i])]
    /\ geom_pc' = "normalized"
    /\ UNCHANGED <<page_lines, page_rects, all_geoms, iouVars, dedupVars, mergeVars, cellsVars, groupVars,
                   repairVars, streamVars, textonlyVars, layoutVars,
                   normVars, latticeVars, extractVars, saveVars, runVars, hybridVars, alignVars, orientVars>>

\* geometric_table_finder.py lines 20-60, called at build_structure_map.py
\* line 192: line 26 raises, or every line and rectangle is classified in
\* place and listed in all_geoms
ClassifyGeoms ==
    /\ geom_pc = "normalized"
    /\ IF ThinRectsRaises(page_rects)
       THEN /\ geom_pc' = "KeyError"
            /\ UNCHANGED <<page_lines, page_rects, all_geoms>>
       ELSE /\ page_lines' = [i \in 1..Len(page_lines) |-> ClassifiedLine(page_lines[i])]
            /\ page_rects' = [i \in 1..Len(page_rects) |-> ClassifiedRect(page_rects[i])]
            /\ all_geoms' = page_lines' \o page_rects'
            /\ geom_pc' = "classified"
    /\ UNCHANGED <<page_elements, iouVars, dedupVars, mergeVars, cellsVars, groupVars,
                   repairVars, streamVars, textonlyVars, layoutVars,
                   normVars, latticeVars, extractVars, saveVars, runVars, hybridVars, alignVars, orientVars>>

---------------------------------------------------------------------------
(* lattice_table_detector.py: find_lattice_tables, lines 5-207.  Coordinates
   in half units, as for find_closed_cells. *)

\* Lines 140-157: "< 5", which is 10 in half units
NearBoundary == 10

Ruling(geom_type, x0, top, x1, bottom) ==
    [type |-> "line", geom_type |-> geom_type,
     x0 |-> x0, top |-> top, x1 |-> x1, bottom |-> bottom]

\* Lines 24-29
IsHLine(el) ==
    \/ /\ el.type = "line"
       /\ \/ Get(el, "geom_type", "none") = "line_horizontal"
          \/ el.top = Get(el, "bottom", el.top)
    \/ el.type = "rect" /\ Get(el, "geom_type", "none") = "line_horizontal"

\* Lines 31-36
IsVLine(el) ==
    \/ /\ el.type = "line"
       /\ \/ Get(el, "geom_type", "none") = "line_vertical"
          \/ el.x0 = el.x1
    \/ el.type = "rect" /\ Get(el, "geom_type", "none") = "line_vertical"

\* Lines 86-89: <<min_x, min_y, max_x, max_y>> of the cells
CellsBox(table_cells) ==
    LET idx == 1..Len(table_cells)
    IN  << MinOf({table_cells[i][1][1] : i \in idx}), MinOf({table_cells[i][1][2] : i \in idx}),
           MaxOf({table_cells[i][2][1] : i \in idx}), MaxOf({table_cells[i][2][2] : i \in idx}) >>

\* Lines 92-105
OverlapsProcessed(box, processed_areas) ==
    \E n \in 1..Len(processed_areas) :
        LET area == processed_areas[n]
            w == Min(box[3], area[3]) - Max(box[1], area[1])
            h == Min(box[4], area[4]) - Max(box[2], area[2])
            table_area == (box[3] - box[1]) * (box[4] - box[2])
            area_area == (area[3] - area[1]) * (area[4] - area[2])
        IN  w > 0 /\ h > 0 /\ 2 * (w * h) > Min(table_area, area_area)

\* Lines 117-118 and 167
HLineInTable(line, box) ==
    box[1] <= line.x1 /\ line.x0 <= box[3] /\ box[2] <= line.top /\ line.top <= box[4]
\* Lines 124-125 and 176
VLineInTable(line, box) ==
    box[2] <= line.bottom /\ line.top <= box[4] /\ box[1] <= line.x0 /\ line.x0 <= box[3]

\* Lines 111-135: the box widened by the lines that meet it
WidenByLines(box, hl, vl) ==
    LET hin == {k \in 1..Len(hl) : HLineInTable(hl[k], box)}
        vin == {k \in 1..Len(vl) : VLineInTable(vl[k], box)}
    IN  << IF hin = {} THEN box[1] ELSE Min(box[1], MinOf({hl[k].x0 : k \in hin})),
           IF vin = {} THEN box[2] ELSE Min(box[2], MinOf({vl[k].top : k \in vin})),
           IF hin = {} THEN box[3] ELSE Max(box[3], MaxOf({hl[k].x1 : k \in hin})),
           IF vin = {} THEN box[4] ELSE Max(box[4], MaxOf({vl[k].bottom : k \in vin})) >>

\* Lines 138-147: the horizontal lines near the top or the bottom of the box
RECURSIVE StretchByHLines(_, _, _)
StretchByHLines(hl, k, box) ==
    IF k > Len(hl) THEN box
    ELSE LET line == hl[k]
             near_top == Abs(line.top - box[2]) < NearBoundary
             near_bottom == Abs(line.top - box[4]) < NearBoundary
         IN  IF (near_top \/ near_bottom) /\ line.x0 <= box[3] /\ line.x1 >= box[1]
             THEN StretchByHLines(hl, k + 1,
                      << Min(box[1], line.x0),
                         IF near_top THEN Min(box[2], line.top) ELSE box[2],
                         Max(box[3], line.x1),
                         IF near_bottom THEN Max(box[4], line.top) ELSE box[4] >>)
             ELSE StretchByHLines(hl, k + 1, box)

\* Lines 149-158: the vertical lines near the left or the right of the box
RECURSIVE StretchByVLines(_, _, _)
StretchByVLines(vl, k, box) ==
    IF k > Len(vl) THEN box
    ELSE LET line == vl[k]
             near_left == Abs(line.x0 - box[1]) < NearBoundary
             near_right == Abs(line.x0 - box[3]) < NearBoundary
         IN  IF (near_left \/ near_right) /\ line.top <= box[4] /\ line.bottom >= box[2]
             THEN StretchByVLines(vl, k + 1,
                      << IF near_left THEN Min(box[1], line.x0) ELSE box[1],
                         Min(box[2], line.top),
                         IF near_right THEN Max(box[3], line.x0) ELSE box[3],
                         Max(box[4], line.bottom) >>)
             ELSE StretchByVLines(vl, k + 1, box)

\* Lines 165-183
Geometry(line) ==
    [x0 |-> line.x0, top |-> line.top, x1 |-> line.x1, bottom |-> line.bottom,
     geom_type |-> Get(line, "geom_type", "line")]

GeomsInside(hl, vl, box) ==
    LET hset == {hl[k] : k \in 1..Len(hl)}
        vset == {vl[k] : k \in 1..Len(vl)}
        all_lines == hl \o vl
        inside == SelectSeq(all_lines,
                      LAMBDA line : \/ line \in hset /\ HLineInTable(line, box)
                                    \/ line \in vset /\ VLineInTable(line, box))
    IN  [k \in 1..Len(inside) |-> Geometry(inside[k])]

\* Lines 186-191
TextBlocksInside(elements, box) ==
    {k \in 1..Len(elements) :
        /\ elements[k].type = "text_block"
        /\ Max(box[1], elements[k].bbox[1]) < Min(box[3], elements[k].bbox[3])
        /\ Max(box[2], elements[k].bbox[2]) < Min(box[4], elements[k].bbox[4])}

\* Lines 196-202; the number of cells is what the reason string tells
LatticeTable(box, table_cells, geometries) ==
    [type |-> "table", bbox |-> box, parsing_strategy |-> "lattice",
     cells |-> Len(table_cells), geometries |-> geometries]

\* Lines 80-205: the groups from the i-th on; st is [final_tables,
\* processed_areas]
RECURSIVE BuildTables(_, _, _, _, _, _)
BuildTables(elements, hl, vl, groups, i, st) ==
    IF i > Len(groups) THEN st.final_tables
    ELSE LET table_cells == groups[i]
             box == CellsBox(table_cells)
             table_bbox == StretchByVLines(vl, 1,
                               StretchByHLines(hl, 1, WidenByLines(box, hl, vl)))
         IN  IF Len(table_cells) < 2 \/ OverlapsProcessed(box, st.processed_areas)
             THEN BuildTables(elements, hl, vl, groups, i + 1, st)
             ELSE IF TextBlocksInside(elements, table_bbox) # {} \/ Len(table_cells) >= 4
                  THEN BuildTables(elements, hl, vl, groups, i + 1,
                           [final_tables |->
                                Append(st.final_tables,
                                       LatticeTable(table_bbox, table_cells,
                                                    GeomsInside(hl, vl, table_bbox))),
                            processed_areas |-> Append(st.processed_areas, table_bbox)])
                  ELSE BuildTables(elements, hl, vl, groups, i + 1, st)

\* Lines 5-207
find_lattice_tables(elements) ==
    LET hl == SelectSeq(elements, IsHLine)
        vl == SelectSeq(elements, IsVLine)
        hset == {hl[k] : k \in 1..Len(hl)}
        vset == {vl[k] : k \in 1..Len(vl)}
        pts == find_line_intersections(hset, vset)
        found == find_closed_cells(hset, vset, pts)
    IN  IF Len(hl) < 2 \/ Len(vl) < 2 THEN <<>>
        ELSE IF Cardinality(pts) < 4 THEN <<>>
        ELSE IF found = <<>> THEN <<>>
        ELSE BuildTables(elements, hl, vl, group_cells_into_tables(found), 1,
                         [final_tables |-> <<>>, processed_areas |-> <<>>])

\* The coordinates the rulings of the model are drawn at, in half units:
\* neighbours half a unit, 1.5 to 2 units and 6 to 7 units apart
LatticeCoords == {0, 1, 4, 16, 30, 34}

\* The page elements of a grid: a horizontal ruling at every y and a
\* vertical one at every x, each over the whole grid, and one text block in
\* every cell; listed in this order, or the text first and the horizontal
\* rulings last
GridElements(xs, ys, text_first) ==
    LET sx == SortedSeqOf(xs)
        sy == SortedSeqOf(ys)
        nx == Len(sx) - 1
        ny == Len(sy) - 1
        hr == [j \in 1..Len(sy) |->
                  Ruling("line_horizontal", sx[1], sy[j], sx[Len(sx)], sy[j])]
        vr == [i \in 1..Len(sx) |->
                  Ruling("line_vertical", sx[i], sy[1], sx[i], sy[Len(sy)])]
        words == [k \in 1..(nx * ny) |->
                     LET i == ((k - 1) % nx) + 1
                         j == ((k - 1) \div nx) + 1
                     IN  TextBlock(<<sx[i], sy[j], sx[i + 1], sy[j + 1]>>)]
    IN  IF text_first THEN words \o vr \o hr ELSE hr \o vr \o words

InitLatticeVars ==
    /\ lattice_xs = {}
    /\ lattice_ys = {}
    /\ lattice_elements = <<>>
    /\ lattice_tables = <<>>
    /\ lattice_pc = "idle"

\* find_lattice_tables on the page elements
FindLatticeTables ==
    /\ lattice_pc = "start"
    /\ lattice_tables' = find_lattice_tables(lattice_elements)
    /\ lattice_pc' = "done"
    /\ UNCHANGED <<lattice_xs, lattice_ys, lattice_elements,
                   iouVars, dedupVars, mergeVars, cellsVars, groupVars,
                   repairVars, streamVars, textonlyVars, layoutVars,
                   normVars, geomVars, extractVars, saveVars, runVars, hybridVars, alignVars, orientVars>>

---------------------------------------------------------------------------
(* lattice_table.py: extract_lattice_tables, lines 88-152 *)

\* What happens to one table: nothing, or the step that raises (page.crop
\* at line 98, estimate_table_columns at 111, extract_table at 119,
\* fix_centered_text_issues at 130), or no word in its area (line 104)
TableOutcomes == {"ok", "crop", "estimate", "extract", "repair", "no_words"}

\* the outcomes raised inside the try of lines 100-151
RaisedInsideTry == {"estimate", "extract", "repair"}

MaxExtractTables == 3
MaxExtractPages == 2

\* The lists of n tables, page after page: a page ends at every cut
TablesOn(n) ==
    { [k \in 1..n |-> [page_num |-> 1 + Cardinality({c \in cuts : c < k}),
                       outcome |-> outcomes[k]]] :
        cuts \in {c \in SUBSET (1..(n - 1)) : Cardinality(c) < MaxExtractPages},
        outcomes \in [1..n -> TableOutcomes] }

InitExtractVars ==
    /\ extract_tables = <<>>
    /\ extract_pos = 0
    /\ extracted_tables = <<>>
    /\ extract_log = <<>>
    /\ extract_pc = "idle"

\* Lines 91-151, one iteration: page.crop is called before the try, so its
\* exception leaves the function; an exception of the later steps is
\* caught and printed
ExtractOneTable ==
    /\ extract_pc = "run"
    /\ extract_pos <= Len(extract_tables)
    /\ LET outcome == extract_tables[extract_pos].outcome
       IN  IF outcome = "crop"
           THEN /\ extract_pc' = "crashed"
                /\ UNCHANGED <<extract_pos, extracted_tables, extract_log>>
           ELSE /\ extract_pc' = "run"
                /\ extract_pos' = extract_pos + 1
                /\ extracted_tables' =
                       IF outcome = "ok" THEN Append(extracted_tables, extract_pos)
                                         ELSE extracted_tables
                /\ extract_log' =
                       IF outcome \in RaisedInsideTry THEN Append(extract_log, extract_pos)
                                                      ELSE extract_log
    /\ UNCHANGED <<extract_tables, iouVars, dedupVars, mergeVars, cellsVars, groupVars,
                   repairVars, streamVars, textonlyVars, layoutVars,
                   normVars, geomVars, latticeVars, saveVars, runVars, hybridVars, alignVars, orientVars>>

\* Line 153: the loops are over
FinishExtraction ==
    /\ extract_pc = "run"
    /\ extract_pos > Len(extract_tables)
    /\ extract_pc' = "done"
    /\ UNCHANGED <<extract_tables, extract_pos, extracted_tables, extract_log,
                   iouVars, dedupVars, mergeVars, cellsVars, groupVars,
                   repairVars, streamVars, textonlyVars, layoutVars,
                   normVars, geomVars, latticeVars, saveVars, runVars, hybridVars, alignVars, orientVars>>

---------------------------------------------------------------------------
(* The saving of the tables: lattice_table.py lines 156-181 and 552-557,
   stream_table.py lines 210-221, text_only.py lines 145-156 *)

Extractors == {"lattice", "stream", "text_only"}

MaxSaveTables == 3

InitSaveVars ==
    /\ save_extractor = "none"
    /\ write_fails = <<>>
    /\ save_pos = 0
    /\ saved_files = {}
    /\ save_log = <<>>
    /\ save_pc = "idle"

\* lattice_table.py lines 156-181: save_table_with_coordinates_in_filename
\* opens and writes the file (lines 555-557) with no try around it, here
\* or in the loop
SaveLatticeTable ==
    /\ save_pc = "run"
    /\ save_extractor = "lattice"
    /\ save_pos <= Len(write_fails)
    /\ IF write_fails[save_pos]
       THEN /\ save_pc' = "crashed"
            /\ UNCHANGED <<save_pos, saved_files>>
       ELSE /\ save_pc' = "run"
            /\ save_pos' = save_pos + 1
            /\ saved_files' = saved_files \cup {save_pos}
    /\ UNCHANGED <<save_extractor, write_fails, save_log, iouVars, dedupVars, mergeVars, cellsVars, groupVars,
                   repairVars, streamVars, textonlyVars, layoutVars,
                   normVars, geomVars, latticeVars, extractVars, runVars, hybridVars, alignVars, orientVars>>

\* stream_table.py lines 214-221, text_only.py lines 149-156: the write is
\* in a try, its exception is printed
SaveCaught ==
    /\ save_pc' = "run"
    /\ save_pos' = save_pos + 1
    /\ saved_files' = IF write_fails[save_pos] THEN saved_files
                                               ELSE saved_files \cup {save_pos}
    /\ save_log' = IF write_fails[save_pos] THEN Append(save_log, save_pos)
                                            ELSE save_log

SaveStreamTable ==
    /\ save_pc = "run"
    /\ save_extractor = "stream"
    /\ save_pos <= Len(write_fails)
    /\ SaveCaught
    /\ UNCHANGED <<save_extractor, write_fails, iouVars, dedupVars, mergeVars, cellsVars, groupVars,
                   repairVars, streamVars, textonlyVars, layoutVars,
                   normVars, geomVars, latticeVars, extractVars, runVars, hybridVars, alignVars, orientVars>>

SaveTextOnlyTable ==
    /\ save_pc = "run"
    /\ save_extractor = "text_only"
    /\ save_pos <= Len(write_fails)
    /\ SaveCaught
    /\ UNCHANGED <<save_extractor, write_fails, iouVars, dedupVars, mergeVars, cellsVars, groupVars,
                   repairVars, streamVars, textonlyVars, layoutVars,
                   normVars, geomVars, latticeVars, extractVars, runVars, hybridVars, alignVars, orientVars>>

\* the loop over the tables is over
FinishSaving ==
    /\ save_pc = "run"
    /\ save_pos > Len(write_fails)
    /\ save_pc' = "done"
    /\ UNCHANGED <<save_extractor, write_fails, save_pos, saved_files, save_log,
                   iouVars, dedupVars, mergeVars, cellsVars, groupVars,
                   repairVars, streamVars, textonlyVars, layoutVars,
                   normVars, geomVars, latticeVars, extractVars, runVars, hybridVars, alignVars, orientVars>>

---------------------------------------------------------------------------
(* One run of an extractor: lattice_table.py lines 57-181, stream_table.py
   lines 29-223, text_only.py lines 30-158 *)

MaxRunTables == 3
MaxRunPages == 2

\* What the placement of one table comes to: a grid, or the `continue` of
\* lattice_table.py line 106, stream_table.py lines 64 and 123,
\* text_only.py
RunOutcomes == {"ok", "skipped"}

\* The bboxes of the tables of a run: at the top and at the bottom of a page
RunShapes == {<<0, 0, 50, 20>>, <<0, 25, 50, 33>>}

\* The lists of n tables, page after page: a page ends at every cut
RunTablesOn(n) ==
    { [k \in 1..n |-> [page_num |-> 1 + Cardinality({c \in cuts : c < k}),
                       bbox |-> bboxes[k], outcome |-> outcomes[k]]] :
        cuts \in {c \in SUBSET (1..(n - 1)) : Cardinality(c) < MaxRunPages},
        bboxes \in [1..n -> RunShapes],
        outcomes \in [1..n -> RunOutcomes] }

\* table_index_on_page of the table at position pos: it counts every table
\* of the page so far, the skipped ones too
TableIndexOnPage(tables, pos) ==
    Cardinality({k \in 1..pos : tables[k].page_num = tables[pos].page_num})

InitRunVars ==
    /\ run_extractor = "none"
    /\ merge_tables = FALSE
    /\ map_tables = <<>>
    /\ table_pos = 0
    /\ placed_tables = <<>>
    /\ stitcher_calls = <<>>
    /\ written_files = <<>>
    /\ run_pc = "idle"

\* lattice_table.py line 153, stream_table.py line 223: the loops over the
\* pages and their tables are over
LoopsOverBeforeEnd(pos, tables) == pos > 1

LoopsOver(pos, tables) == pos > Len(tables)

\* lattice_table.py lines 88-147: the grid of one table is extracted and
\* repaired, and the table is appended to all_tables; nothing is written
ExtractLatticeTable ==
    /\ run_pc = "extract"
    /\ run_extractor = "lattice"
    /\ table_pos <= Len(map_tables)
    /\ LET element == map_tables[table_pos]
       IN  placed_tables' =
               IF element.outcome = "ok"
               THEN Append(placed_tables,
                           TableInfo(element.page_num,
                                     TableIndexOnPage(map_tables, table_pos),
                                     element.bbox, 2, "portrait"))
               ELSE placed_tables
    /\ table_pos' = table_pos + 1
    /\ UNCHANGED <<run_extractor, merge_tables, map_tables, stitcher_calls,
                   written_files, run_pc, iouVars, dedupVars, mergeVars, cellsVars, groupVars,
                   repairVars, streamVars, textonlyVars, layoutVars,
                   normVars, geomVars, latticeVars, extractVars, saveVars, hybridVars, alignVars, orientVars>>

\* lattice_table.py lines 156-159: the stitcher is called on all_tables when
\* merge_tables is set and there is more than one table
CallStitcher ==
    /\ run_pc = "extract"
    /\ run_extractor = "lattice"
    /\ LoopsOver(table_pos, map_tables)
    /\ stitcher_calls' = IF merge_tables /\ Len(placed_tables) > 1
                         THEN Append(stitcher_calls, placed_tables)
                         ELSE stitcher_calls
    /\ run_pc' = "save"
    /\ UNCHANGED <<run_extractor, merge_tables, map_tables, table_pos,
                   placed_tables, written_files, iouVars, dedupVars, mergeVars, cellsVars, groupVars,
                   repairVars, streamVars, textonlyVars, layoutVars,
                   normVars, geomVars, latticeVars, extractVars, saveVars, hybridVars, alignVars, orientVars>>

\* lattice_table.py lines 161-181: the tables the two loops save
TablesToSave ==
    IF stitcher_calls = <<>> THEN placed_tables
    ELSE merge_cross_page_tables(stitcher_calls[1])

\* lattice_table.py lines 162-171 and 174-181, one iteration
SaveLatticeFile ==
    /\ run_pc = "save"
    /\ Len(written_files) < Len(TablesToSave)
    /\ written_files' =
           Append(written_files, TablesToSave[Len(written_files) + 1])
    /\ UNCHANGED <<run_extractor, merge_tables, map_tables, table_pos,
                   placed_tables, stitcher_calls, run_pc, iouVars, dedupVars, mergeVars, cellsVars, groupVars,
                   repairVars, streamVars, textonlyVars, layoutVars,
                   normVars, geomVars, latticeVars, extractVars, saveVars, hybridVars, alignVars, orientVars>>

\* stream_table.py lines 36-208, text_only.py lines 36-143: the words of one
\* table are placed into processed_table
PlaceGrid ==
    /\ run_pc = "place"
    /\ run_extractor \in {"stream", "text_only"}
    /\ table_pos <= Len(map_tables)
    /\ LET element == map_tables[table_pos]
       IN  IF element.outcome = "ok"
           THEN /\ placed_tables' =
                       Append(placed_tables,
                              TableInfo(element.page_num,
                                        TableIndexOnPage(map_tables, table_pos),
                                        element.bbox, 2, "portrait"))
                /\ run_pc' = "write"
                /\ UNCHANGED table_pos
           ELSE /\ table_pos' = table_pos + 1
                /\ UNCHANGED <<placed_tables, run_pc>>
    /\ UNCHANGED <<run_extractor, merge_tables, map_tables, stitcher_calls,
                   written_files, iouVars, dedupVars, mergeVars, cellsVars, groupVars,
                   repairVars, streamVars, textonlyVars, layoutVars,
                   normVars, geomVars, latticeVars, extractVars, saveVars, hybridVars, alignVars, orientVars>>

\* stream_table.py lines 210-221, text_only.py lines 145-156: the file of
\* the table just placed is written
WriteGridFile ==
    /\ run_pc = "write"
    /\ written_files' = Append(written_files, placed_tables[Len(placed_tables)])
    /\ table_pos' = table_pos + 1
    /\ run_pc' = "place"
    /\ UNCHANGED <<run_extractor, merge_tables, map_tables, placed_tables,
                   stitcher_calls, iouVars, dedupVars, mergeVars, cellsVars, groupVars,
                   repairVars, streamVars, textonlyVars, layoutVars,
                   normVars, geomVars, latticeVars, extractVars, saveVars, hybridVars, alignVars, orientVars>>

\* the function returns
FinishRun ==
    /\ \/ run_pc = "save" /\ Len(written_files) = Len(TablesToSave)
       \/ run_pc = "place" /\ LoopsOver(table_pos, map_tables)
    /\ run_pc' = "done"
    /\ UNCHANGED <<run_extractor, merge_tables, map_tables, table_pos,
                   placed_tables, stitcher_calls, written_files, iouVars, dedupVars, mergeVars, cellsVars, groupVars,
                   repairVars, streamVars, textonlyVars, layoutVars,
                   normVars, geomVars, latticeVars, extractVars, saveVars, hybridVars, alignVars, orientVars>>

---------------------------------------------------------------------------
(* geometric_table_finder.py: find_geometric_tables, lines 62-256.
   Coordinates in half units, as for find_lattice_tables. *)

\* Lines 85 and 80: the margin 10 and the width 5, in half units
SearchMargin == 20
ThinWidth == 10
\* Lines 105-107: the margin 50, in half units
StreamMargin == 100

\* page.bbox
PageBbox == <<0, 0, 200, 200>>

\* Lines 76, 86, 115-117 and 229: the geometry overlaps the box
GeomOverlaps(box, g) ==
    /\ Max(box[1], g.x0) < Min(box[3], g.x1)
    /\ Max(box[2], g.top) < Min(box[4], Get(g, "bottom", g.top))

GeomsOverlapping(box, geoms) == SelectSeq(geoms, LAMBDA g : GeomOverlaps(box, g))

\* Lines 79-82
VerticalLike(g) ==
    \/ Get(g, "geom_type", "none") = "line_vertical"
    \/ g.x0 = g.x1
    \/ Get(g, "height", 2) > Get(g, "width", 0) /\ Get(g, "width", 0) < ThinWidth

\* Lines 121-124
HorizontalLike(g) ==
    \/ Get(g, "geom_type", "none") = "line_horizontal"
    \/ g.top = Get(g, "bottom", g.top)
    \/ Get(g, "width", 0) > Get(g, "height", 2) /\ Get(g, "width", 0) > ThinWidth

\* Lines 139-155: Counter(values).most_common(2)[0] when it occurs at least
\* twice, the first inserted among the most frequent; otherwise fallback
ModalOr(values, fallback) ==
    LET count(v) == Cardinality({k \in 1..Len(values) : values[k] = v})
        first == CHOOSE k \in 1..Len(values) :
                     /\ \A j \in 1..Len(values) : count(values[j]) <= count(values[k])
                     /\ \A j \in 1..(k - 1) : count(values[j]) < count(values[k])
    IN  IF count(values[first]) >= 2 THEN values[first] ELSE fallback

\* Lines 99-204: the stream expansion of a candidate
StreamExpansion(cand_bbox, geoms, elements) ==
    LET table_top == cand_bbox[2]
        table_bottom == cand_bbox[4]
        extended_search_bbox ==
            <<cand_bbox[1] - StreamMargin, table_top - SearchMargin,
              cand_bbox[3] + StreamMargin, table_bottom + SearchMargin>>
        h_lines_in_ext_range ==
            SelectSeq(GeomsOverlapping(extended_search_bbox, geoms), HorizontalLike)
        n == Len(h_lines_in_ext_range)
        all_h_lines_x0 == [k \in 1..n |-> h_lines_in_ext_range[k].x0]
        all_h_lines_x1 == [k \in 1..n |-> h_lines_in_ext_range[k].x1]
        line_x0 == IF n = 0 THEN cand_bbox[1]
                   ELSE ModalOr(all_h_lines_x0, MinOf({all_h_lines_x0[k] : k \in 1..n}))
        line_x1 == IF n = 0 THEN cand_bbox[3]
                   ELSE ModalOr(all_h_lines_x1, MaxOf({all_h_lines_x1[k] : k \in 1..n}))
        text_blocks_in_slice ==
            SelectSeq(elements,
                LAMBDA el : /\ el.type = "text_block"
                            /\ Max(table_top, el.bbox[2]) < Min(table_bottom, el.bbox[4]))
        m == Len(text_blocks_in_slice)
        width(tb) == tb.bbox[3] - tb.bbox[1]
        RECURSIVE sum(_)
        sum(k) == IF k = 0 THEN 0 ELSE width(text_blocks_in_slice[k]) + sum(k - 1)
        \* width > avg_width * 1.8, with avg_width = sum / m
        merged_cell_candidates ==
            SelectSeq(text_blocks_in_slice, LAMBDA tb : 10 * m * width(tb) > 18 * sum(m))
        standard_blocks ==
            SelectSeq(text_blocks_in_slice,
                LAMBDA tb : \A k \in 1..Len(merged_cell_candidates) :
                                merged_cell_candidates[k] # tb)
        boundary_blocks == IF standard_blocks # <<>> THEN standard_blocks
                           ELSE text_blocks_in_slice
        text_x0 == IF m = 0 THEN cand_bbox[1]
                   ELSE MinOf({boundary_blocks[k].bbox[1] : k \in 1..Len(boundary_blocks)})
        text_x1 == IF m = 0 THEN cand_bbox[3]
                   ELSE MaxOf({boundary_blocks[k].bbox[3] : k \in 1..Len(boundary_blocks)})
        text_width == text_x1 - text_x0
        line_width == line_x1 - line_x0
    IN  IF n > 0 /\ (text_width = 0 \/ 10 * line_width >= 7 * text_width)
        THEN <<line_x0, table_top, line_x1, table_bottom>>
        ELSE <<Min(line_x0, text_x0), table_top, Max(line_x1, text_x1), table_bottom>>

\* Lines 74-204: the expanded candidate of one proposal
ExpandCandidate(cand_bbox, geoms, elements) ==
    LET geoms_inside == GeomsOverlapping(cand_bbox, geoms)
        v_geoms_count == Len(SelectSeq(geoms_inside, VerticalLike))
        parsing_strategy == IF v_geoms_count >= 2 THEN "lattice" ELSE "stream"
        search_bbox == <<cand_bbox[1] - SearchMargin, cand_bbox[2] - SearchMargin,
                         cand_bbox[3] + SearchMargin, cand_bbox[4] + SearchMargin>>
        nearby_geoms == GeomsOverlapping(search_bbox, geoms)
        idx == 1..Len(nearby_geoms)
        expanded_bbox ==
            IF nearby_geoms = <<>> THEN cand_bbox
            ELSE IF parsing_strategy = "lattice"
            THEN <<Min(cand_bbox[1], MinOf({nearby_geoms[k].x0 : k \in idx})),
                   Min(cand_bbox[2], MinOf({nearby_geoms[k].top : k \in idx})),
                   Max(cand_bbox[3], MaxOf({nearby_geoms[k].x1 : k \in idx})),
                   Max(cand_bbox[4],
                       MaxOf({Get(nearby_geoms[k], "bottom", nearby_geoms[k].top) : k \in idx}))>>
            ELSE StreamExpansion(cand_bbox, geoms, elements)
    IN  [bbox |-> expanded_bbox, parsing_strategy |-> parsing_strategy]

\* Line 211: sort(key=(bbox[1], bbox[0])), a stable sort
RECURSIVE SortCandidates(_, _, _)
SortCandidates(candidates, k, sorted) ==
    IF k > Len(candidates) THEN sorted
    ELSE LET el == candidates[k]
             n == Cardinality({i \in 1..Len(sorted) :
                      \/ sorted[i].bbox[2] < el.bbox[2]
                      \/ sorted[i].bbox[2] = el.bbox[2] /\ sorted[i].bbox[1] <= el.bbox[1]})
         IN  SortCandidates(candidates, k + 1,
                 SubSeq(sorted, 1, n) \o <<el>> \o SubSeq(sorted, n + 1, Len(sorted)))

\* Lines 216: the two bboxes overlap
BoxesOverlap(box1, box2) ==
    /\ Max(box1[1], box2[1]) < Min(box1[3], box2[3])
    /\ Max(box1[2], box2[2]) < Min(box1[4], box2[4])

\* Lines 212-223: the sweep over the sorted candidates from the i-th on
RECURSIVE MergeSweep(_, _, _, _)
MergeSweep(sorted, i, current_table, merged) ==
    IF i > Len(sorted) THEN Append(merged, current_table)
    ELSE LET next_table == sorted[i]
             box1 == current_table.bbox
             box2 == next_table.bbox
         IN  IF BoxesOverlap(box1, box2)
             THEN MergeSweep(sorted, i + 1,
                      [bbox |-> <<Min(box1[1], box2[1]), Min(box1[2], box2[2]),
                                  Max(box1[3], box2[3]), Max(box1[4], box2[4])>>,
                       parsing_strategy |->
                           IF next_table.parsing_strategy = "lattice" THEN "lattice"
                           ELSE current_table.parsing_strategy],
                      merged)
             ELSE MergeSweep(sorted, i + 1, next_table, Append(merged, current_table))

\* Lines 208-223
MergeCandidates(candidates) ==
    IF candidates = <<>> THEN <<>>
    ELSE LET sorted == SortCandidates(candidates, 1, <<>>)
         IN  MergeSweep(sorted, 2, sorted[1], <<>>)

\* Line 231: the bbox is within page.bbox
WithinPage(box, page_bbox) ==
    /\ box[1] >= page_bbox[1] /\ box[2] >= page_bbox[2]
    /\ box[3] <= page_bbox[3] /\ box[4] <= page_bbox[4]

\* Mutant of FinalTables: every merged candidate becomes a table.
FinalTablesUnvalidated(merged, geoms, page_bbox) ==
    [k \in 1..Len(merged) |->
        LET inside == GeomsOverlapping(merged[k].bbox, geoms)
        IN  [type |-> "table", bbox |-> merged[k].bbox,
             parsing_strategy |-> merged[k].parsing_strategy,
             geometries |-> [j \in 1..Len(inside) |-> Geometry(inside[j])]]]

\* Lines 225-253: the tables of the merged candidates that pass the final
\* validation; the reason string is left out
FinalTables(merged, geoms, page_bbox) ==
    LET kept == SelectSeq(merged,
                    LAMBDA t : /\ GeomsOverlapping(t.bbox, geoms) # <<>>
                               /\ WithinPage(t.bbox, page_bbox))
    IN  [k \in 1..Len(kept) |->
            LET inside == GeomsOverlapping(kept[k].bbox, geoms)
            IN  [type |-> "table", bbox |-> kept[k].bbox,
                 parsing_strategy |-> kept[k].parsing_strategy,
                 geometries |-> [j \in 1..Len(inside) |-> Geometry(inside[j])]]]

\* Line 63: the raw records of all_geoms carry no 'type', so lines 24-36 of
\* find_lattice_tables pass over them
WithType(elements) == SelectSeq(elements, LAMBDA el : "type" \in DOMAIN el)

\* A line record of the page source, with all its fields
LineRecord(x0, top, x1, bottom) ==
    [x0 |-> x0, top |-> top, x1 |-> x1, bottom |-> bottom,
     width |-> x1 - x0, height |-> bottom - top]

\* The rulings of a grid, as line records
GridLines(xs, ys) ==
    LET sx == SortedSeqOf(xs)
        sy == SortedSeqOf(ys)
    IN  [j \in 1..Len(sy) |-> LineRecord(sx[1], sy[j], sx[Len(sx)], sy[j])]
        \o [i \in 1..Len(sx) |-> LineRecord(sx[i], sy[1], sx[i], sy[Len(sy)])]

\* The grids of the model: two by two cells on the page, the same with its
\* left column beyond the left edge of the page, and one by two cells
GridsOfLines ==
    { GridLines({10, 30, 50}, {100, 120, 140}),
      GridLines({-10, 10, 30}, {100, 120, 140}),
      GridLines({10, 30, 50}, {100, 120}) }

\* Two grids of two by two cells one above the other, the lower one wider,
\* and a vertical line at x beside them that crosses none of their rulings
TwoGridsAndLine(x) ==
    GridLines({10, 20, 30}, {100, 110, 120})
    \o GridLines({10, 30, 50}, {150, 160, 170})
    \o <<LineRecord(x, 100, x, 170)>>

\* the line 3 units and 10 units right of the lower grid
PagesOfTwoGrids == {TwoGridsAndLine(56), TwoGridsAndLine(70)}

\* The loose lines of the model, none of them ruling a cell: two thick
\* vertical strokes, four thick horizontal ones of which two start at 80 and
\* two end at 60, and a horizontal one that starts left of the page
LooseLines ==
    << LineRecord(4, 6, 6, 18), LineRecord(44, 4, 46, 8),
       LineRecord(80, 60, 120, 62), LineRecord(80, 64, 140, 66),
       LineRecord(20, 68, 60, 70), LineRecord(40, 72, 60, 74),
       LineRecord(-6, 76, 60, 78) >>

MaxLooseLines == 4

\* the sub-lists of LooseLines of at most MaxLooseLines lines
LooseLinesUpTo(n) ==
    { LET ks == SortedSeqOf(K) IN [i \in 1..Len(ks) |-> LooseLines[ks[i]]] :
        K \in {K \in SUBSET (1..Len(LooseLines)) : Cardinality(K) <= n} }

\* The bboxes the proposer returns: three where the third overlaps the
\* first two, which do not overlap, and one over the horizontal strokes
ProposalBoxes ==
    { <<0, 0, 20, 20>>, <<40, 2, 60, 10>>, <<10, 4, 50, 16>>, <<30, 56, 110, 80>> }

MaxProposals == 3

\* The text blocks of the page: none, one of no width, one of some width
PageTexts ==
    { <<>>, <<TextBlock(<<40, 60, 40, 66>>)>>, <<TextBlock(<<12, 102, 28, 118>>)>> }

InitHybridVars ==
    /\ proposals = <<>>
    /\ proposer_calls = 0
    /\ expanded_candidates = <<>>
    /\ merged_candidates = <<>>
    /\ hybrid_tables = <<>>
    /\ hybrid_pc = "idle"

\* Line 64: `if lattice_tables`
LatticeFoundNever(found) == FALSE

LatticeFound(found) == found # <<>>

\* Lines 62-256: the lattice detector first; the proposer, the expansion,
\* the merge and the validation only when it found nothing
FindGeometricTables ==
    /\ hybrid_pc = "start"
    /\ LET found == find_lattice_tables(WithType(all_geoms \o page_elements))
       IN  IF LatticeFound(found)
           THEN /\ hybrid_tables' = found
                /\ UNCHANGED <<proposer_calls, expanded_candidates, merged_candidates>>
           ELSE /\ proposer_calls' = proposer_calls + 1
                /\ expanded_candidates' =
                       [k \in 1..Len(proposals) |->
                           ExpandCandidate(proposals[k], all_geoms, page_elements)]
                /\ merged_candidates' = MergeCandidates(expanded_candidates')
                /\ hybrid_tables' = FinalTables(merged_candidates', all_geoms, PageBbox)
    /\ hybrid_pc' = "done"
    /\ UNCHANGED <<proposals, iouVars, dedupVars, mergeVars, cellsVars, groupVars,
                   repairVars, streamVars, textonlyVars, layoutVars,
                   normVars, geomVars, latticeVars, extractVars, saveVars,
                   runVars, alignVars, orientVars>>

---------------------------------------------------------------------------
(* text_alignment_table_finder.py: find_text_alignment_tables *)

\* Line 103
min_gap_width == 3

\* Lines 26-32: |dtop| < tolerance, the tolerance being (bottom - top) * 0.7
\* of the word that opened the line, or 3
WithinTolerance(dtop, opener) ==
    IF opener.bottom - opener.top > 0
    THEN 10 * Abs(dtop) < 7 * (opener.bottom - opener.top)
    ELSE Abs(dtop) < 3

\* Lines 27-33: the sorted words from the k-th on; a line that is closed is
\* sorted by x0
RECURSIVE GroupIntoLines(_, _, _, _, _)
GroupIntoLines(ws, k, current_line, opener, lines) ==
    IF k > Len(ws) THEN Append(lines, SortWords(current_line, 1, <<>>, "x0"))
    ELSE IF WithinTolerance(ws[k].top - current_line[Len(current_line)].top, opener)
         THEN GroupIntoLines(ws, k + 1, Append(current_line, ws[k]), opener, lines)
         ELSE GroupIntoLines(ws, k + 1, <<ws[k]>>, ws[k],
                  Append(lines, SortWords(current_line, 1, <<>>, "x0")))

\* Lines 45-56: the lines from the i-th on; a group is kept when it has at
\* least 3 lines.  The gap is compared with avg_height * 2.0, avg_height
\* being height_sum / height_count
RECURSIVE GroupIntoBands(_, _, _, _, _, _)
GroupIntoBands(lines, i, current_group, height_sum, height_count, groups) ==
    LET closed == IF Len(current_group) >= 3 THEN Append(groups, current_group)
                  ELSE groups
    IN  IF i > Len(lines) THEN closed
        ELSE LET last == current_group[Len(current_group)]
                 prev_line_bottom == MaxOf({last[k].bottom : k \in 1..Len(last)})
                 current_line_top == MinOf({lines[i][k].top : k \in 1..Len(lines[i])})
             IN  IF (current_line_top - prev_line_bottom) * height_count < 2 * height_sum
                 THEN GroupIntoBands(lines, i + 1, Append(current_group, lines[i]),
                                     height_sum, height_count, groups)
                 ELSE GroupIntoBands(lines, i + 1, <<lines[i]>>,
                                     height_sum, height_count, closed)

\* Lines 16-56: the groups of lines of the page
table_line_groups(words) ==
    LET sorted == SortWords(words, 1, <<>>, "top_x0")
        lines == IF sorted = <<>> THEN <<>>
                 ELSE GroupIntoLines(sorted, 2, <<sorted[1]>>, sorted[1], <<>>)
        tall == {i \in 1..Len(lines) : lines[i][1].bottom > lines[i][1].top}
        RECURSIVE heights(_)
        heights(i) == IF i = 0 THEN 0
                      ELSE heights(i - 1) +
                           (IF i \in tall THEN lines[i][1].bottom - lines[i][1].top ELSE 0)
    IN  IF lines = <<>> \/ tall = {} THEN <<>>
        ELSE GroupIntoBands(lines, 2, <<lines[1]>>, heights(Len(lines)),
                            Cardinality(tall), <<>>)

\* Lines 61-66
group_bbox(group) ==
    LET ws == UNION {{group[l][k] : k \in 1..Len(group[l])} : l \in 1..Len(group)}
    IN  <<MinOf({w.x0 : w \in ws}), MinOf({w.top : w \in ws}),
          MaxOf({w.x1 : w \in ws}), MaxOf({w.bottom : w \in ws})>>

\* Lines 68-75: Counter(row_word_counts).most_common(1)[0][0], the first
\* inserted among the most frequent counts
most_common_word_count(group) ==
    LET count(n) == Cardinality({l \in 1..Len(group) : Len(group[l]) = n})
        first == CHOOSE l \in 1..Len(group) :
                     /\ \A j \in 1..Len(group) : count(Len(group[j])) <= count(Len(group[l]))
                     /\ \A j \in 1..(l - 1) : count(Len(group[j])) < count(Len(group[l]))
    IN  Len(group[first])

\* Lines 77-88: projection, the number of template words over every unit of
\* the band (from 0); the coordinates of the model are whole
\* numbers, which int() leaves as they are
projection(group, table_width) ==
    LET m == most_common_word_count(group)
        x == group_bbox(group)[1]
        template_words == {<<l, k>> \in (1..Len(group)) \X (1..m) : Len(group[l]) = m}
    IN  [i \in 0..(table_width - 1) |->
            Cardinality({p \in template_words :
                /\ Max(0, group[p[1]][p[2]].x0 - x) <= i
                /\ i < group[p[1]][p[2]].x1 - x})]

\* the first unit from i on whose projection is zero (zero = TRUE) or is not
\* (zero = FALSE), table_width if there is none
NextUnit(proj, table_width, i, zero) ==
    LET units == {j \in i..(table_width - 1) : (proj[j] = 0) = zero}
    IN  IF units = {} THEN table_width
        ELSE CHOOSE j \in units : \A k \in units : j <= k

\* Lines 90-99: the scan from the i-th unit on; a gap is <<start, end, width>>.
\* The units at which the loop changes nothing (a zero unit inside a gap, a
\* non-zero unit outside) are passed in one step.
RECURSIVE ScanGaps(_, _, _, _, _, _)
ScanGaps(proj, table_width, i, in_gap, gap_start, gaps) ==
    IF i >= table_width
    THEN IF in_gap THEN Append(gaps, <<gap_start, table_width, table_width - gap_start>>)
         ELSE gaps
    ELSE LET j == NextUnit(proj, table_width, i, ~ in_gap)
         IN  IF j >= table_width
             THEN ScanGaps(proj, table_width, table_width, in_gap, gap_start, gaps)
             ELSE IF ~ in_gap
             THEN ScanGaps(proj, table_width, j + 1, TRUE, j, gaps)
             ELSE ScanGaps(proj, table_width, j + 1, FALSE, gap_start,
                           Append(gaps, <<gap_start, j, j - gap_start>>))

\* Line 105: sort(key=width, reverse=True), a stable sort
RECURSIVE SortGaps(_, _, _)
SortGaps(gaps, k, sorted) ==
    IF k > Len(gaps) THEN sorted
    ELSE LET n == Cardinality({i \in 1..Len(sorted) : sorted[i][3] >= gaps[k][3]})
         IN  SortGaps(gaps, k + 1,
                 SubSeq(sorted, 1, n) \o <<gaps[k]>> \o SubSeq(sorted, n + 1, Len(sorted)))

\* Lines 101-106
top_gapsAnyWidth(group, table_width) ==
    LET proj == projection(group, table_width)
        gaps == ScanGaps(proj, table_width, 1, proj[0] = 0,
                         IF proj[0] = 0 THEN 0 ELSE 0 - 1, <<>>)
        wide_gaps == SortGaps(gaps, 1, <<>>)
        num_expected_gaps == most_common_word_count(group) - 1
    IN  SubSeq(wide_gaps, 1, Min(num_expected_gaps, Len(wide_gaps)))

top_gaps(group, table_width) ==
    LET proj == projection(group, table_width)
        gaps == ScanGaps(proj, table_width, 1, proj[0] = 0,
                         IF proj[0] = 0 THEN 0 ELSE 0 - 1, <<>>)
        wide_gaps == SortGaps(SelectSeq(gaps, LAMBDA g : g[3] > min_gap_width), 1, <<>>)
        num_expected_gaps == most_common_word_count(group) - 1
    IN  SubSeq(wide_gaps, 1, Min(num_expected_gaps, Len(wide_gaps)))

\* Lines 113-123: separator_x = group_bbox[0] + gap[0] + gap[2] / 2
virtual_line(gap, bbox) ==
    [x0 |-> Float(2 * bbox[1] + 2 * gap[1] + gap[3], 2), top |-> bbox[2],
     x1 |-> Float(2 * bbox[1] + 2 * gap[1] + gap[3], 2), bottom |-> bbox[4],
     geom_type |-> "virtual_line"]

\* Lines 60-128: the candidates of the groups from the i-th on
RECURSIVE TableBboxes(_, _, _)
TableBboxes(groups, i, table_bboxes) ==
    IF i > Len(groups) THEN table_bboxes
    ELSE LET group == groups[i]
             bbox == group_bbox(group)
             table_width == bbox[3] - bbox[1]
             gaps == top_gaps(group, table_width)
             m == most_common_word_count(group)
         IN  IF m < 2 \/ table_width <= 0 \/ Len(gaps) < m - 1
             THEN TableBboxes(groups, i + 1, table_bboxes)
             ELSE TableBboxes(groups, i + 1,
                      Append(table_bboxes,
                             [bbox |-> bbox,
                              geometries |-> [k \in 1..Len(gaps) |->
                                                 virtual_line(gaps[k], bbox)]]))

\* Lines 7-131
find_text_alignment_tables(words) ==
    TableBboxes(table_line_groups(words), 1, <<>>)

\* The rows of words of the model, as the (x0, x1) of their words: two
\* words 10 apart, two words 3 apart, three words 4 and 6 apart, one word
\* that starts left of the others
RowPatterns ==
    { <<<<0, 10>>, <<20, 30>>>>, <<<<0, 10>>, <<13, 30>>>>,
      <<<<0, 8>>, <<12, 18>>, <<24, 30>>>>, <<<<-10, 5>>>> }

\* The steps from the top of a row to the top of the next, the rows being
\* 8 high: a step within a band and a step that ends the band
RowSteps == {10, 40}

MaxTextRows == 4

\* The words of the rows from the i-th on, the i-th at top
RECURSIVE WordsOfRows(_, _, _)
WordsOfRows(rows, i, top) ==
    IF i > Len(rows) THEN <<>>
    ELSE [k \in 1..Len(rows[i][1]) |->
             Word(rows[i][1][k][1], rows[i][1][k][2], top, top + 8, "w")]
         \o WordsOfRows(rows, i + 1, top + rows[i][2])

InitAlignVars ==
    /\ extracted_words = <<>>
    /\ alignment_tables = <<>>
    /\ align_pc = "idle"

\* find_text_alignment_tables on the words of the page
FindTextAlignmentTables ==
    /\ align_pc = "start"
    /\ alignment_tables' = find_text_alignment_tables(extracted_words)
    /\ align_pc' = "done"
    /\ UNCHANGED <<extracted_words, iouVars, dedupVars, mergeVars, cellsVars, groupVars,
                   repairVars, streamVars, textonlyVars, layoutVars,
                   normVars, geomVars, latticeVars, extractVars, saveVars,
                   runVars, hybridVars, orientVars>>

---------------------------------------------------------------------------
(* The orientation of a page: build_structure_map.py lines 38 and 239-243,
   lattice_table.py lines 69-73 *)

MaxSide == 10

InitOrientVars ==
    /\ page_size = <<0, 0>>
    /\ layout_page = <<>>
    /\ stitcher_orientation = "none"
    /\ orient_pc = "idle"

\* build_structure_map.py lines 38 and 239-243: the dimensions and the
\* orientation of the page layout
RecordOrientation ==
    /\ orient_pc = "start"
    /\ layout_page' =
           [dimensions |-> page_size,
            orientation |-> IF page_size[1] <= page_size[2] THEN "portrait"
                            ELSE "landscape"]
    /\ orient_pc' = "mapped"
    /\ UNCHANGED <<page_size, stitcher_orientation, iouVars, dedupVars, mergeVars, cellsVars, groupVars,
                   repairVars, streamVars, textonlyVars, layoutVars,
                   normVars, geomVars, latticeVars, extractVars, saveVars,
                   runVars, hybridVars, alignVars>>

\* lattice_table.py lines 69-73: page_orientations[page_num], from the
\* dimensions of the page layout
DeriveOrientation ==
    /\ orient_pc = "mapped"
    /\ LET dimensions == Get(layout_page, "dimensions", <<0, 0>>)
           is_portrait == IF Len(dimensions) >= 2 THEN dimensions[1] < dimensions[2]
                          ELSE TRUE
       IN  stitcher_orientation' = IF is_portrait THEN "portrait" ELSE "landscape"
    /\ orient_pc' = "derived"
    /\ UNCHANGED <<page_size, layout_page, iouVars, dedupVars, mergeVars, cellsVars, groupVars,
                   repairVars, streamVars, textonlyVars, layoutVars,
                   normVars, geomVars, latticeVars, extractVars, saveVars,
                   runVars, hybridVars, alignVars>>

---------------------------------------------------------------------------
(* Specifications *)

\* calculate_iou on every pair of well-formed boxes
InitIoU ==
    /\ box_a \in IoUBoxes
    /\ box_b \in IoUBoxes
    /\ iou = NoValue
    /\ InitDedupVars
    /\ InitMergeVars
    /\ InitCellsVars
    /\ InitGroupVars
    /\ InitRepairVars
    /\ InitStreamVars
    /\ InitTextOnlyVars
    /\ InitLayoutVars
    /\ InitNormVars
    /\ InitGeomVars
    /\ InitLatticeVars
    /\ InitExtractVars
    /\ InitSaveVars
    /\ InitRunVars
    /\ InitHybridVars
    /\ InitAlignVars
    /\ InitOrientVars

NextIoU == CallCalculateIou

SpecIoU == InitIoU /\ [][NextIoU]_vars

\* the dedup step on every pair of candidate lists
InitDedup ==
    /\ geometric_tables \in SeqsUpTo(DedupBoxes, MaxGeoTables)
    /\ text_table_bboxes \in SeqsUpTo(DedupBoxes, MaxTextTables)
    /\ final_tables = <<>>
    /\ dedup_pc = "start"
    /\ InitIoUVars
    /\ InitMergeVars
    /\ InitCellsVars
    /\ InitGroupVars
    /\ InitRepairVars
    /\ InitStreamVars
    /\ InitTextOnlyVars
    /\ InitLayoutVars
    /\ InitNormVars
    /\ InitGeomVars
    /\ InitLatticeVars
    /\ InitExtractVars
    /\ InitSaveVars
    /\ InitRunVars
    /\ InitHybridVars
    /\ InitAlignVars
    /\ InitOrientVars

NextDedup == DeduplicateTables

SpecDedup == InitDedup /\ [][NextDedup]_vars

\* extract_lattice_tables over every run of pages and tables, then the
\* stitcher
InitMerge ==
    /\ all_tables = <<>>
    /\ page_orientations = <<>>
    /\ merged_tables = <<>>
    /\ merge_pc = "extract"
    /\ InitIoUVars
    /\ InitDedupVars
    /\ InitCellsVars
    /\ InitGroupVars
    /\ InitRepairVars
    /\ InitStreamVars
    /\ InitTextOnlyVars
    /\ InitLayoutVars
    /\ InitNormVars
    /\ InitGeomVars
    /\ InitLatticeVars
    /\ InitExtractVars
    /\ InitSaveVars
    /\ InitRunVars
    /\ InitHybridVars
    /\ InitAlignVars
    /\ InitOrientVars

NextMerge == NextPage \/ ExtractTable \/ MergeTables

SpecMerge == InitMerge /\ [][NextMerge]_vars

\* find_closed_cells on every pair of sets of lines
InitCells ==
    /\ h_lines \in SubsetsUpTo(HLines, MaxHLines)
    /\ v_lines \in SubsetsUpTo(VLines, MaxVLines)
    /\ cells = <<>>
    /\ cells_pc = "start"
    /\ InitIoUVars
    /\ InitDedupVars
    /\ InitMergeVars
    /\ InitGroupVars
    /\ InitRepairVars
    /\ InitStreamVars
    /\ InitTextOnlyVars
    /\ InitLayoutVars
    /\ InitNormVars
    /\ InitGeomVars
    /\ InitLatticeVars
    /\ InitExtractVars
    /\ InitSaveVars
    /\ InitRunVars
    /\ InitHybridVars
    /\ InitAlignVars
    /\ InitOrientVars

NextCells == FindClosedCells

SpecCells == InitCells /\ [][NextCells]_vars

\* group_cells_into_tables on every list of cells
InitGroup ==
    /\ group_cells \in SeqsUpTo(GridCells, MaxCells)
    /\ cell_groups = <<>>
    /\ group_pc = "start"
    /\ InitIoUVars
    /\ InitDedupVars
    /\ InitMergeVars
    /\ InitCellsVars
    /\ InitRepairVars
    /\ InitStreamVars
    /\ InitTextOnlyVars
    /\ InitLayoutVars
    /\ InitNormVars
    /\ InitGeomVars
    /\ InitLatticeVars
    /\ InitExtractVars
    /\ InitSaveVars
    /\ InitRunVars
    /\ InitHybridVars
    /\ InitAlignVars
    /\ InitOrientVars

NextGroup == GroupCells

SpecGroup == InitGroup /\ [][NextGroup]_vars

\* fix_centered_text_issues on every grid and estimate
InitRepair ==
    /\ table_data \in Grids
    /\ estimated_cols \in EstimatedCols
    /\ fixed_table = <<>>
    /\ repair_pc = "start"
    /\ InitIoUVars
    /\ InitDedupVars
    /\ InitMergeVars
    /\ InitCellsVars
    /\ InitGroupVars
    /\ InitStreamVars
    /\ InitTextOnlyVars
    /\ InitLayoutVars
    /\ InitNormVars
    /\ InitGeomVars
    /\ InitLatticeVars
    /\ InitExtractVars
    /\ InitSaveVars
    /\ InitRunVars
    /\ InitHybridVars
    /\ InitAlignVars
    /\ InitOrientVars

NextRepair == FixCenteredText

SpecRepair == InitRepair /\ [][NextRepair]_vars

\* the stream placer on every table of rows of words
InitStream ==
    /\ word_rows \in WordRowsSet
    /\ stream_table = <<>>
    /\ stream_warnings = <<>>
    /\ stream_pc = "start"
    /\ InitIoUVars
    /\ InitDedupVars
    /\ InitMergeVars
    /\ InitCellsVars
    /\ InitGroupVars
    /\ InitRepairVars
    /\ InitTextOnlyVars
    /\ InitLayoutVars
    /\ InitNormVars
    /\ InitGeomVars
    /\ InitLatticeVars
    /\ InitExtractVars
    /\ InitSaveVars
    /\ InitRunVars
    /\ InitHybridVars
    /\ InitAlignVars
    /\ InitOrientVars

NextStream == PlaceStreamTable

SpecStream == InitStream /\ [][NextStream]_vars

\* the text-only placer on every table of rows of words
InitTextOnly ==
    /\ to_bbox = TextOnlyBbox
    /\ virtual_lines \in SUBSET VirtualLineXs
    /\ to_rows \in TextOnlyRowsSet
    /\ to_table = <<>>
    /\ to_warnings = <<>>
    /\ to_pc = "start"
    /\ InitIoUVars
    /\ InitDedupVars
    /\ InitMergeVars
    /\ InitCellsVars
    /\ InitGroupVars
    /\ InitRepairVars
    /\ InitStreamVars
    /\ InitLayoutVars
    /\ InitNormVars
    /\ InitGeomVars
    /\ InitLatticeVars
    /\ InitExtractVars
    /\ InitSaveVars
    /\ InitRunVars
    /\ InitHybridVars
    /\ InitAlignVars
    /\ InitOrientVars

NextTextOnly == PlaceTextOnlyTable

SpecTextOnly == InitTextOnly /\ [][NextTextOnly]_vars

\* analyze_page_layout on every page of tables, candidates and text blocks
InitLayout ==
    /\ geometric_tables \in SeqsUpTo(LayoutBoxes, MaxGeoTables)
    /\ text_table_bboxes \in SeqsUpTo(LayoutBoxes, MaxTextTables)
    /\ final_tables = <<>>
    /\ dedup_pc = "idle"
    /\ text_blocks \in SeqsUpTo(LayoutBoxes, MaxTextBlocks)
    /\ elements_to_keep = <<>>
    /\ layout_pc = "start"
    /\ InitIoUVars
    /\ InitMergeVars
    /\ InitCellsVars
    /\ InitGroupVars
    /\ InitRepairVars
    /\ InitStreamVars
    /\ InitTextOnlyVars
    /\ InitNormVars
    /\ InitGeomVars
    /\ InitLatticeVars
    /\ InitExtractVars
    /\ InitSaveVars
    /\ InitRunVars
    /\ InitHybridVars
    /\ InitAlignVars
    /\ InitOrientVars

NextLayout == AnalyzePageLayout

SpecLayout == InitLayout /\ [][NextLayout]_vars

\* the normalizer's word step on every list of words
InitNormalize ==
    /\ page_words \in WordLists
    /\ line_clusters = <<>>
    /\ word_blocks = <<>>
    /\ norm_pc = "start"
    /\ InitIoUVars
    /\ InitDedupVars
    /\ InitMergeVars
    /\ InitCellsVars
    /\ InitGroupVars
    /\ InitRepairVars
    /\ InitStreamVars
    /\ InitTextOnlyVars
    /\ InitLayoutVars
    /\ InitGeomVars
    /\ InitLatticeVars
    /\ InitExtractVars
    /\ InitSaveVars
    /\ InitRunVars
    /\ InitHybridVars
    /\ InitAlignVars
    /\ InitOrientVars


NextNormalize == NormalizeWords

SpecNormalize == InitNormalize /\ [][NextNormalize]_vars

\* normalization and classification of every page of records
InitGeoms ==
    /\ page_lines \in SeqsUpTo(LineRecords, MaxLineRecords)
    /\ page_rects \in SeqsUpTo(RectRecords, MaxRectRecords)
    /\ page_elements = <<>>
    /\ all_geoms = <<>>
    /\ geom_pc = "start"
    /\ InitIoUVars
    /\ InitDedupVars
    /\ InitMergeVars
    /\ InitCellsVars
    /\ InitGroupVars
    /\ InitRepairVars
    /\ InitStreamVars
    /\ InitTextOnlyVars
    /\ InitLayoutVars
    /\ InitNormVars
    /\ InitLatticeVars
    /\ InitExtractVars
    /\ InitSaveVars
    /\ InitRunVars
    /\ InitHybridVars
    /\ InitAlignVars
    /\ InitOrientVars


NextGeoms == NormalizeGeoms \/ ClassifyGeoms

SpecGeoms == InitGeoms /\ [][NextGeoms]_vars

\* find_lattice_tables on every grid of 3 vertical and 4 horizontal rulings
InitLattice ==
    /\ lattice_xs \in {xs \in SUBSET LatticeCoords : Cardinality(xs) = 3}
    /\ lattice_ys \in {ys \in SUBSET LatticeCoords : Cardinality(ys) = 4}
    /\ \E text_first \in BOOLEAN :
           lattice_elements = GridElements(lattice_xs, lattice_ys, text_first)
    /\ lattice_tables = <<>>
    /\ lattice_pc = "start"
    /\ InitIoUVars
    /\ InitDedupVars
    /\ InitMergeVars
    /\ InitCellsVars
    /\ InitGroupVars
    /\ InitRepairVars
    /\ InitStreamVars
    /\ InitTextOnlyVars
    /\ InitLayoutVars
    /\ InitNormVars
    /\ InitGeomVars
    /\ InitExtractVars
    /\ InitSaveVars
    /\ InitRunVars
    /\ InitHybridVars
    /\ InitAlignVars
    /\ InitOrientVars


NextLattice == FindLatticeTables

SpecLattice == InitLattice /\ [][NextLattice]_vars

\* extract_lattice_tables on every list of tables
InitExtract ==
    /\ \E n \in 0..MaxExtractTables : extract_tables \in TablesOn(n)
    /\ extract_pos = 1
    /\ extracted_tables = <<>>
    /\ extract_log = <<>>
    /\ extract_pc = "run"
    /\ InitIoUVars
    /\ InitDedupVars
    /\ InitMergeVars
    /\ InitCellsVars
    /\ InitGroupVars
    /\ InitRepairVars
    /\ InitStreamVars
    /\ InitTextOnlyVars
    /\ InitLayoutVars
    /\ InitNormVars
    /\ InitGeomVars
    /\ InitLatticeVars
    /\ InitSaveVars
    /\ InitRunVars
    /\ InitHybridVars
    /\ InitAlignVars
    /\ InitOrientVars


NextExtract == ExtractOneTable \/ FinishExtraction

SpecExtract == InitExtract /\ [][NextExtract]_vars

\* the saving of every list of tables by every extractor
InitSave ==
    /\ save_extractor \in Extractors
    /\ write_fails \in SeqsUpTo(BOOLEAN, MaxSaveTables)
    /\ save_pos = 1
    /\ saved_files = {}
    /\ save_log = <<>>
    /\ save_pc = "run"
    /\ InitIoUVars
    /\ InitDedupVars
    /\ InitMergeVars
    /\ InitCellsVars
    /\ InitGroupVars
    /\ InitRepairVars
    /\ InitStreamVars
    /\ InitTextOnlyVars
    /\ InitLayoutVars
    /\ InitNormVars
    /\ InitGeomVars
    /\ InitLatticeVars
    /\ InitExtractVars
    /\ InitRunVars
    /\ InitHybridVars
    /\ InitAlignVars
    /\ InitOrientVars


NextSave == SaveLatticeTable \/ SaveStreamTable \/ SaveTextOnlyTable \/ FinishSaving

SpecSave == InitSave /\ [][NextSave]_vars

\* every extractor on every list of tables, with and without merging
InitRun ==
    /\ run_extractor \in Extractors
    /\ merge_tables \in BOOLEAN
    /\ \E n \in 0..MaxRunTables : map_tables \in RunTablesOn(n)
    /\ table_pos = 1
    /\ placed_tables = <<>>
    /\ stitcher_calls = <<>>
    /\ written_files = <<>>
    /\ run_pc = IF run_extractor = "lattice" THEN "extract" ELSE "place"
    /\ InitIoUVars
    /\ InitDedupVars
    /\ InitMergeVars
    /\ InitCellsVars
    /\ InitGroupVars
    /\ InitRepairVars
    /\ InitStreamVars
    /\ InitTextOnlyVars
    /\ InitLayoutVars
    /\ InitNormVars
    /\ InitGeomVars
    /\ InitLatticeVars
    /\ InitExtractVars
    /\ InitSaveVars
    /\ InitHybridVars
    /\ InitAlignVars
    /\ InitOrientVars

NextRun ==
    \/ ExtractLatticeTable
    \/ CallStitcher
    \/ SaveLatticeFile
    \/ PlaceGrid
    \/ WriteGridFile
    \/ FinishRun

SpecRun == InitRun /\ [][NextRun]_vars

\* find_geometric_tables on the page elements and the classified records
\* of every page of grids or loose lines, with every list of proposals
InitHybrid ==
    /\ page_lines \in GridsOfLines \cup PagesOfTwoGrids \cup LooseLinesUpTo(MaxLooseLines)
    /\ page_rects = <<>>
    /\ \E texts \in PageTexts :
           page_elements = [i \in 1..Len(page_lines) |-> line_element(page_lines[i])]
                           \o texts
    /\ all_geoms = [i \in 1..Len(page_lines) |-> ClassifiedLine(page_lines[i])]
    /\ geom_pc = "classified"
    /\ proposals \in SeqsUpTo(ProposalBoxes, MaxProposals)
    /\ proposer_calls = 0
    /\ expanded_candidates = <<>>
    /\ merged_candidates = <<>>
    /\ hybrid_tables = <<>>
    /\ hybrid_pc = "start"
    /\ InitIoUVars
    /\ InitDedupVars
    /\ InitMergeVars
    /\ InitCellsVars
    /\ InitGroupVars
    /\ InitRepairVars
    /\ InitStreamVars
    /\ InitTextOnlyVars
    /\ InitLayoutVars
    /\ InitNormVars
    /\ InitLatticeVars
    /\ InitExtractVars
    /\ InitSaveVars
    /\ InitRunVars
    /\ InitAlignVars
    /\ InitOrientVars

NextHybrid == FindGeometricTables

SpecHybrid == InitHybrid /\ [][NextHybrid]_vars

\* find_text_alignment_tables on every page of up to MaxTextRows rows
InitAlign ==
    /\ \E rows \in SeqsUpTo(RowPatterns \X RowSteps, MaxTextRows) :
           extracted_words = WordsOfRows(rows, 1, 0)
    /\ alignment_tables = <<>>
    /\ align_pc = "start"
    /\ InitIoUVars
    /\ InitDedupVars
    /\ InitMergeVars
    /\ InitCellsVars
    /\ InitGroupVars
    /\ InitRepairVars
    /\ InitStreamVars
    /\ InitTextOnlyVars
    /\ InitLayoutVars
    /\ InitNormVars
    /\ InitGeomVars
    /\ InitLatticeVars
    /\ InitExtractVars
    /\ InitSaveVars
    /\ InitRunVars
    /\ InitHybridVars
    /\ InitOrientVars

NextAlign == FindTextAlignmentTables

SpecAlign == InitAlign /\ [][NextAlign]_vars

\* a page of every width and height: its layout, then the stitcher's view
InitOrient ==
    /\ page_size \in (1..MaxSide) \X (1..MaxSide)
    /\ layout_page = <<>>
    /\ stitcher_orientation = "none"
    /\ orient_pc = "start"
    /\ InitIoUVars
    /\ InitDedupVars
    /\ InitMergeVars
    /\ InitCellsVars
    /\ InitGroupVars
    /\ InitRepairVars
    /\ InitStreamVars
    /\ InitTextOnlyVars
    /\ InitLayoutVars
    /\ InitNormVars
    /\ InitGeomVars
    /\ InitLatticeVars
    /\ InitExtractVars
    /\ InitSaveVars
    /\ InitRunVars
    /\ InitHybridVars
    /\ InitAlignVars

NextOrient == RecordOrientation \/ DeriveOrientation

SpecOrient == InitOrient /\ [][NextOrient]_vars

---------------------------------------------------------------------------
(* Claims *)

\* two boxes without a common point
Disjoint(a, b) == a[3] < b[1] \/ b[3] < a[1] \/ a[4] < b[2] \/ b[4] < a[2]

\* C1: calculate_iou is symmetric, returns 0 for every pair of disjoint
\* boxes and returns 1 for every pair of identical boxes, for all boxes
\* with x1 >= x0 and bottom >= top, zero-width and zero-height ones
\* included.
C1_IoUContract ==
    iou.kind # "none" =>
        /\ iou = calculate_iou(box_b, box_a)
        /\ Disjoint(box_a, box_b) => (iou.kind = "float" /\ iou.num = 0)
        /\ box_a = box_b => (iou.kind = "float" /\ iou.num = iou.den)

\* C2: a text-alignment candidate whose IoU with at least one geometric
\* candidate is above 0.10 never appears among the final table elements.
C2_DedupPrecedence ==
    \A k \in 1..Len(text_table_bboxes) :
        (\E j \in 1..Len(geometric_tables) :
            FloatGt(calculate_iou(text_table_bboxes[k], geometric_tables[j]), 1, 10))
        => ~ \E f \in 1..Len(final_tables) :
                /\ final_tables[f].parsing_strategy = "text_only"
                /\ final_tables[f].bbox = text_table_bboxes[k]

\* C2 witness: the step has finished on a text candidate that clears the
\* first geometric bbox and exceeds the threshold against the second.
C2_Witness ==
    /\ dedup_pc = "done"
    /\ Len(text_table_bboxes) = 1
    /\ Len(geometric_tables) = 2
    /\ ~ FloatGt(calculate_iou(text_table_bboxes[1], geometric_tables[1]), 1, 10)
    /\ FloatGt(calculate_iou(text_table_bboxes[1], geometric_tables[2]), 1, 10)
    /\ Len(final_tables) = 2

\* --- the stitcher ---

InputTables == {all_tables[i] : i \in 1..Len(all_tables)}

\* the output table o holds the rows of the input table t
HoldsRowsOf(o, t) ==
    \E r \in 1..Len(o.data) : o.data[r][1] = <<t.page_num, t.table_index>>

\* the output holds the two tables stitched, a's rows then b's
Stitched(a, b) ==
    \E k \in 1..Len(merged_tables) :
        /\ merged_tables[k].is_merged
        /\ merged_tables[k].data = a.data \o b.data
        /\ merged_tables[k].bbox[2] = a.bbox[2]
        /\ merged_tables[k].bbox[4] = b.bbox[4]

OfOrientation(orientation) == {t \in InputTables : t.orientation = orientation}

GlobalMaxBottom(orientation) ==
    CHOOSE v \in {t.bbox[4] : t \in OfOrientation(orientation)} :
        \A t \in OfOrientation(orientation) : t.bbox[4] <= v

GlobalMinTop(orientation) ==
    CHOOSE v \in {t.bbox[2] : t \in OfOrientation(orientation)} :
        \A t \in OfOrientation(orientation) : t.bbox[2] >= v

\* a precedes b in (top, table index) order on their page
Before(a, b) ==
    \/ a.bbox[2] < b.bbox[2]
    \/ a.bbox[2] = b.bbox[2] /\ a.table_index < b.table_index

\* the bottom-most table of its page: the largest bottom, and the first in
\* (top, table index) order of those that share it
IsBottomMost(a) ==
    \A t \in InputTables :
        (t.page_num = a.page_num /\ t # a) =>
            \/ t.bbox[4] < a.bbox[4]
            \/ t.bbox[4] = a.bbox[4] /\ Before(a, t)

\* the top-most table of its page: the smallest top, and the first in
\* (top, table index) order of those that share it
IsTopMost(b) ==
    \A t \in InputTables :
        (t.page_num = b.page_num /\ t # b) =>
            \/ t.bbox[2] > b.bbox[2]
            \/ t.bbox[2] = b.bbox[2] /\ Before(b, t)

\* a was stitched to a table of the page before its own
MergedWithPreviousPage(a) ==
    \E k \in 1..Len(merged_tables) :
        /\ merged_tables[k].is_merged
        /\ merged_tables[k].merged_pages = <<a.page_num - 1, a.page_num>>
        /\ HoldsRowsOf(merged_tables[k], a)

EdgesWithin(a, b, d) ==
    /\ Abs(a.bbox[1] - b.bbox[1]) <= d
    /\ Abs(a.bbox[3] - b.bbox[3]) <= d

EdgesLessThan(a, b, d) ==
    /\ Abs(a.bbox[1] - b.bbox[1]) < d
    /\ Abs(a.bbox[3] - b.bbox[3]) < d

\* a on page N and b on page N+1, same orientation and column count, a's
\* bottom the orientation's global max bottom, b's top its global min top
AtGlobalExtremes(a, b) ==
    /\ b.page_num = a.page_num + 1
    /\ a.orientation = b.orientation
    /\ a.max_cols = b.max_cols
    /\ a.bbox[4] = GlobalMaxBottom(a.orientation)
    /\ b.bbox[2] = GlobalMinTop(a.orientation)

\* C3 as stated: for any input that contains two same-orientation tables on
\* consecutive pages N and N+1 with equal column count, left and right edges
\* aligned within 10 units, N's bottom the orientation's global max bottom
\* and N+1's top its global min top, the output contains one table whose
\* grid is N's rows then N+1's rows, with N's top and N+1's bottom.
C3_StitchAnyInput ==
    merge_pc = "merged" =>
        \A a \in InputTables, b \in InputTables :
            (AtGlobalExtremes(a, b) /\ EdgesWithin(a, b, 10)) => Stitched(a, b)

\* C3 as amended: the same, where the edges differ by less than 10 units,
\* table N is its page's bottom-most table and table N+1 its page's
\* top-most one (the first in (top, table index) order among tables that
\* share the bottom, or the top), and table N has not been stitched to a
\* table of page N-1.
C3_StitchSelected ==
    merge_pc = "merged" =>
        \A a \in InputTables, b \in InputTables :
            (/\ AtGlobalExtremes(a, b)
             /\ EdgesLessThan(a, b, 10)
             /\ IsBottomMost(a)
             /\ IsTopMost(b)
             /\ ~ MergedWithPreviousPage(a)) => Stitched(a, b)

\* C3 witness: two tables that meet the amended conditions, of different
\* bottoms, were stitched while a third table is present.
C3_Witness ==
    /\ merge_pc = "merged"
    /\ Len(all_tables) = 3
    /\ \E a \in InputTables, b \in InputTables :
           /\ AtGlobalExtremes(a, b)
           /\ EdgesLessThan(a, b, 10)
           /\ IsBottomMost(a)
           /\ IsTopMost(b)
           /\ ~ MergedWithPreviousPage(a)
           /\ a.bbox[4] # b.bbox[4]
           /\ Stitched(a, b)

\* the merge conditions of two tables, the edges within d units inclusive
\* (strict = FALSE) or less than d units apart (strict = TRUE)
MergeConditions(a, b, strict) ==
    /\ a.orientation = b.orientation
    /\ a.max_cols = b.max_cols
    /\ IF strict THEN EdgesLessThan(a, b, 10) ELSE EdgesWithin(a, b, 10)
    /\ \/ GlobalMaxBottom(a.orientation) - a.bbox[4] <= 12
       \/ b.bbox[2] - GlobalMinTop(a.orientation) <= 2

\* the bottom-most table of page N and the top-most table of page N+1
BottomTopPairs ==
    {<<a, b>> \in InputTables \X InputTables :
        b.page_num = a.page_num + 1 /\ IsBottomMost(a) /\ IsTopMost(b)}

C5_AtMostOneMerge ==
    merge_pc = "merged" =>
        \A t \in InputTables :
            Cardinality({k \in 1..Len(merged_tables) :
                            /\ merged_tables[k].is_merged
                            /\ HoldsRowsOf(merged_tables[k], t)}) <= 1

\* C5 witness: pages 1 and 2 were stitched, and the table of page 2, which
\* meets the merge conditions with the table of page 3, was not merged
\* again.
C5_Witness ==
    /\ merge_pc = "merged"
    /\ \E pair \in BottomTopPairs :
           /\ MergedWithPreviousPage(pair[1])
           /\ MergeConditions(pair[1], pair[2], TRUE)
           /\ ~ Stitched(pair[1], pair[2])

\* C6: no merged output table combines a table of a portrait page with a
\* table of a landscape page.
C6_NoCrossOrientation ==
    merge_pc = "merged" =>
        \A k \in 1..Len(merged_tables) :
            merged_tables[k].is_merged =>
                \A a \in InputTables, b \in InputTables :
                    (HoldsRowsOf(merged_tables[k], a) /\ HoldsRowsOf(merged_tables[k], b))
                        => a.orientation = b.orientation

\* C6 witness: a portrait page followed by a landscape page whose tables
\* have the same bbox and column count, left apart.
C6_Witness ==
    /\ merge_pc = "merged"
    /\ \E pair \in BottomTopPairs :
           /\ pair[1].orientation # pair[2].orientation
           /\ pair[1].bbox = pair[2].bbox
           /\ pair[1].max_cols = pair[2].max_cols
           /\ ~ Stitched(pair[1], pair[2])
           /\ Len(merged_tables) = Len(all_tables)

\* --- the closed-cell detector ---

\* the segment from (xa, y) to (xb, y) lies on the horizontal line h
OnHLine(h, y, xa, xb) == h.top = y /\ \A x \in xa..xb : h.x0 <= x /\ x <= h.x1

\* the segment from (x, ya) to (x, yb) lies on the vertical line v
OnVLine(v, x, ya, yb) == v.x0 = x /\ \A y \in ya..yb : v.top <= y /\ y <= v.bottom

\* the number of edges of the cell that lie on a single line, end to end
CoveredEdges(c) ==
    Count(\E h \in h_lines : OnHLine(h, c[1][2], c[1][1], c[2][1]))
    + Count(\E h \in h_lines : OnHLine(h, c[2][2], c[1][1], c[2][1]))
    + Count(\E v \in v_lines : OnVLine(v, c[1][1], c[1][2], c[2][2]))
    + Count(\E v \in v_lines : OnVLine(v, c[2][1], c[1][2], c[2][2]))

\* C7: every cell returned by find_closed_cells has at least 3 of its 4
\* edges covered end to end by a single line segment, and has width >= 1
\* and height >= 1 (2 half units).
C7_ClosedCells ==
    \A k \in 1..Len(cells) :
        /\ CoveredEdges(cells[k]) >= 3
        /\ cells[k][2][1] - cells[k][1][1] >= 2
        /\ cells[k][2][2] - cells[k][1][2] >= 2

\* C7 witness: a cell with exactly 3 covered edges was returned.
C7_Witness ==
    /\ cells_pc = "done"
    /\ \E k \in 1..Len(cells) : CoveredEdges(cells[k]) = 3

\* --- the grouping of cells ---

CellsOf(g) == {g[k] : k \in 1..Len(g)}

\* the cells of S that a path of pairwise adjacent cells of S joins to a
\* cell of R
RECURSIVE ReachableIn(_, _)
ReachableIn(S, R) ==
    LET more == {c \in S \ R : \E d \in R : are_cells_adjacent(c, d)}
    IN  IF more = {} THEN R ELSE ReachableIn(S, R \cup more)

\* C8: any two cells of a group returned by group_cells_into_tables are
\* joined by a path of pairwise adjacent cells lying within the group, and
\* no cell belongs to two groups.
C8_GroupsConnected ==
    /\ \A n \in 1..Len(cell_groups) :
           \A c \in CellsOf(cell_groups[n]) :
               ReachableIn(CellsOf(cell_groups[n]), {c}) = CellsOf(cell_groups[n])
    /\ \A n \in 1..Len(cell_groups), m \in 1..Len(cell_groups) :
           n # m => CellsOf(cell_groups[n]) \cap CellsOf(cell_groups[m]) = {}

\* C8 witness: a group of three cells was returned whose first and last
\* cells are not adjacent to each other.
C8_Witness ==
    /\ group_pc = "done"
    /\ \E n \in 1..Len(cell_groups) :
           /\ Len(cell_groups[n]) = 3
           /\ \E c \in CellsOf(cell_groups[n]), d \in CellsOf(cell_groups[n]) :
                  ~ are_cells_adjacent(c, d)

\* --- the centered-text repair ---

\* the cells col_idx, col_idx + 1 and col_idx + 2 (from 0) of the row are
\* an (empty, non-empty, empty) run
IsRun(row, col_idx) ==
    /\ col_idx + 3 <= Len(row)
    /\ is_empty_cell(row[col_idx + 1])
    /\ ~ is_empty_cell(row[col_idx + 2])
    /\ is_empty_cell(row[col_idx + 3])

\* the row with every run handled: the left cell of a run holds the run's
\* content and its middle cell is blank
AllRunsHandled(row) ==
    [c \in 1..Len(row) |->
        IF IsRun(row, c - 1) THEN row[c + 1]
        ELSE IF c >= 2 /\ IsRun(row, c - 2) THEN Str("")
        ELSE row[c]]

\* the row without the cells of the columns that are empty in every row of
\* the table
RECURSIVE WithoutEmptyColumns(_, _, _)
WithoutEmptyColumns(table, row, c) ==
    IF c > Len(row) THEN <<>>
    ELSE IF \A r \in 1..Len(table) : c <= Len(table[r]) => is_empty_cell(table[r][c])
         THEN WithoutEmptyColumns(table, row, c + 1)
         ELSE <<row[c]>> \o WithoutEmptyColumns(table, row, c + 1)

\* the two rows hold the same content: cell by cell, the same value or two
\* empty cells
SameRow(a, b) ==
    /\ Len(a) = Len(b)
    /\ \A c \in 1..Len(a) : a[c] = b[c] \/ (is_empty_cell(a[c]) /\ is_empty_cell(b[c]))

\* C9: when the column count deviates from the estimate by more than 1,
\* the grid returned is the raw grid with every (empty, non-empty, empty)
\* run of every row handled (the content in the run's left cell, the
\* middle cell blank) and then without its all-empty columns, and the row
\* ["", "X", "", "Y"] with estimate 2 becomes ["X", "Y"].
C9_EveryRunHandled ==
    (repair_pc = "done" /\ Abs(current_cols(table_data) - estimated_cols) > 1) =>
        LET handled == [r \in 1..Len(table_data) |-> AllRunsHandled(table_data[r])]
        IN  /\ Len(fixed_table) = Len(table_data)
            /\ \A r \in 1..Len(table_data) :
                   SameRow(fixed_table[r], WithoutEmptyColumns(handled, handled[r], 1))
            /\ (table_data = <<<<Str(""), Str("X"), Str(""), Str("Y")>>>> /\ estimated_cols = 2)
                   => fixed_table = <<<<Str("X"), Str("Y")>>>>

\* --- the stream placer ---

\* C10: every standard row (as many words as the column count, which the
\* code takes to be the largest word count of a row) is placed into exactly
\* that many columns with each word in a column of its own: no cell of the
\* row holds two words and no word of the row is left out.
C10_StandardRowsNoCollision ==
    stream_pc = "done" =>
        \A r \in 1..Len(word_rows) :
            Len(word_rows[r]) = max_words_count(word_rows) =>
                /\ Len(stream_table[r]) = max_words_count(word_rows)
                /\ \E col \in [1..Len(word_rows[r]) -> 1..Len(stream_table[r])] :
                       /\ \A j, k \in 1..Len(word_rows[r]) : j # k => col[j] # col[k]
                       /\ \A k \in 1..Len(word_rows[r]) :
                              stream_table[r][col[k]] = word_rows[r][k].text

\* --- the placers' diagnostics ---

\* the texts joined by single spaces
RECURSIVE JoinText(_)
JoinText(seq) ==
    IF Len(seq) = 1 THEN seq[1] ELSE seq[1] \o " " \o JoinText(Tail(seq))

\* the cell holds the text: it is some of the row's texts joined by spaces,
\* the text among them
CellHolds(cell, text, words_in_row) ==
    LET texts == {words_in_row[k].text : k \in 1..Len(words_in_row)}
    IN  \E seq \in SeqsUpTo(texts, Len(words_in_row)) \ {<<>>} :
            /\ \E k \in 1..Len(seq) : seq[k] = text
            /\ cell = JoinText(seq)

\* the word is in the row of the grid
InGridRow(grid_row, word, words_in_row) ==
    \E c \in 1..Len(grid_row) : CellHolds(grid_row[c], word.text, words_in_row)

\* the word has no point in common with the inside of any column
InNoStreamColumn(word) ==
    \A c \in 1..Len(column_boundaries(word_rows)) :
        Min(word.x1, column_boundaries(word_rows)[c][2])
            <= Max(word.x0, column_boundaries(word_rows)[c][1])

InNoTextOnlyColumn(word) ==
    LET seps == column_separators(to_bbox, virtual_lines)
    IN  word.x1 <= seps[1] \/ word.x0 >= seps[Len(seps)]

\* C11: in the stream and in the text-only placer, a word that falls in no
\* column and is not in the grid is named in a warning.
C11_NoSilentOmission ==
    /\ stream_pc = "done" =>
           \A r \in 1..Len(word_rows) : \A k \in 1..Len(word_rows[r]) :
               (InNoStreamColumn(word_rows[r][k])
                   /\ ~ InGridRow(stream_table[r], word_rows[r][k], word_rows[r]))
               => \E n \in 1..Len(stream_warnings) :
                      stream_warnings[n] = <<r, word_rows[r][k].text>>
    /\ to_pc = "done" =>
           \A r \in 1..Len(to_rows) : \A k \in 1..Len(to_rows[r]) :
               (InNoTextOnlyColumn(to_rows[r][k])
                   /\ ~ InGridRow(to_table[r], to_rows[r][k], to_rows[r]))
               => \E n \in 1..Len(to_warnings) :
                      to_warnings[n] = <<r, to_rows[r][k].text>>

\* C12: no cell of a grid produced by a placer (the lattice grid after the
\* centered-text repair, the stream grid, the text-only grid) is None: an
\* empty cell is the empty string.
C12_NoNoneCell ==
    /\ repair_pc = "done" =>
           \A r \in 1..Len(fixed_table) : \A c \in 1..Len(fixed_table[r]) :
               fixed_table[r][c] # None
    /\ stream_pc = "done" =>
           \A r \in 1..Len(stream_table) : \A c \in 1..Len(stream_table[r]) :
               stream_table[r][c] \in STRING
    /\ to_pc = "done" =>
           \A r \in 1..Len(to_table) : \A c \in 1..Len(to_table[r]) :
               to_table[r][c] \in STRING

\* --- the page layout ---

\* the area two boxes have in common and the area they cover together
CommonArea(a, b) ==
    Max(0, Min(a[3], b[3]) - Max(a[1], b[1])) * Max(0, Min(a[4], b[4]) - Max(a[2], b[2]))
BoxArea(a) == (a[3] - a[1]) * (a[4] - a[2])
CoveredArea(a, b) == BoxArea(a) + BoxArea(b) - CommonArea(a, b)

\* C13: in the layout returned by analyze_page_layout no text block has an
\* IoU above 0.80 with the bbox of a table of the layout.
C13_NoTextBlockInsideTable ==
    layout_pc = "done" =>
        \A i, j \in 1..Len(elements_to_keep) :
            (elements_to_keep[i].type = "text_block" /\ elements_to_keep[j].type = "table")
            => ~ (10 * CommonArea(elements_to_keep[i].bbox, elements_to_keep[j].bbox)
                    > 8 * CoveredArea(elements_to_keep[i].bbox, elements_to_keep[j].bbox))

\* C13 witness: a layout was returned from which a text block was removed
\* that overlaps the second of two tables, without being equal to it.
C13_Witness ==
    /\ layout_pc = "done"
    /\ Len(final_tables) = 2
    /\ Len(text_blocks) = 1
    /\ Len(elements_to_keep) = 2
    /\ text_blocks[1] # final_tables[2].bbox
    /\ 10 * CommonArea(text_blocks[1], final_tables[2].bbox)
           > 8 * CoveredArea(text_blocks[1], final_tables[2].bbox)

\* --- the bbox of a stitched table ---

\* C14: every table output by merge_cross_page_tables, merged or not, has a
\* bbox with x1 >= x0 and bottom >= top, given that every input table's has.
C14_OutputBboxWellFormed ==
    (merge_pc = "merged" /\ \A i \in 1..Len(all_tables) : WellFormed(all_tables[i].bbox))
    => \A i \in 1..Len(merged_tables) : WellFormed(merged_tables[i].bbox)

\* --- the words and their text blocks ---

WordBbox(w) == <<w.x0, w.top, w.x1, w.bottom>>
BoxInside(a, b) == a[1] >= b[1] /\ a[2] >= b[2] /\ a[3] <= b[3] /\ a[4] <= b[4]

\* C15: the word-to-text-block merge is lossless: the bbox of every input
\* word is contained in the bbox of the text block it was absorbed into,
\* the block of its line cluster.
C15_WordsInsideTheirBlock ==
    norm_pc = "done" =>
        /\ \A k \in 1..Len(page_words) : \E i \in 1..Len(line_clusters) :
               \E j \in 1..Len(line_clusters[i]) : line_clusters[i][j] = page_words[k]
        /\ \A i \in 1..Len(line_clusters) : \A j \in 1..Len(line_clusters[i]) :
               BoxInside(WordBbox(line_clusters[i][j]), word_blocks[i].bbox)

\* --- the line and rectangle records ---

\* C16: the detectors never mutate shared input records: no step changes a
\* line or rectangle record of the page source.
C16_RecordsNeverMutated ==
    [][page_lines' = page_lines /\ page_rects' = page_rects]_vars

\* C17: page analysis never crashes on a record with missing primitive
\* fields: normalization and geometric detection complete, and a missing
\* bottom is taken from top.
C17_NoCrashOnMissingFields ==
    /\ geom_pc # "KeyError"
    /\ geom_pc \in {"normalized", "classified"} =>
           \A i \in 1..Len(page_lines) :
               page_elements[i].bottom = Get(page_lines[i], "bottom", page_lines[i].top)

\* --- a grid of rulings ---

\* the distances between neighbouring coordinates
Spacings(S) == {b - a : <<a, b>> \in {p \in S \X S : p[1] < p[2] /\ ~ \E c \in S : p[1] < c /\ c < p[2]}}

\* exactly one table, found by the lattice strategy, built from all the
\* cells of the grid, its bbox the rectangle of the outer rulings
OneTableOfTheGrid ==
    /\ Len(lattice_tables) = 1
    /\ lattice_tables[1].type = "table"
    /\ lattice_tables[1].parsing_strategy = "lattice"
    /\ lattice_tables[1].cells = 6
    /\ lattice_tables[1].bbox = << MinOf(lattice_xs), MinOf(lattice_ys),
                                   MaxOf(lattice_xs), MaxOf(lattice_ys) >>

\* C18 as stated: rulings forming a grid of 3 rows and 2 columns with one
\* word per cell yield exactly one lattice table, built from the 6 cells,
\* with the outer rulings' rectangle as bbox.
C18_AnyGridYieldsOneTable ==
    lattice_pc = "done" => OneTableOfTheGrid

\* C18 amended: the same for a grid whose cells are each at least 1 unit
\* wide and 1 unit high.
C18_GridYieldsOneTable ==
    (/\ lattice_pc = "done"
     /\ \A d \in Spacings(lattice_xs) \cup Spacings(lattice_ys) : d >= 2)
    => OneTableOfTheGrid

\* C18 witness: a grid with a row 1.5 units high and a column 6 units wide
\* was analysed and one table of 6 cells came out.
C18_Witness ==
    /\ lattice_pc = "done"
    /\ \A d \in Spacings(lattice_xs) \cup Spacings(lattice_ys) : d >= 2
    /\ 3 \in Spacings(lattice_ys)
    /\ 12 \in Spacings(lattice_xs)
    /\ Len(lattice_tables) = 1
    /\ lattice_tables[1].cells = 6
    /\ Len(lattice_tables[1].geometries) = 7

\* --- failures of one table ---

\* C19: in extract_lattice_tables a failure at any step of one table (crop,
\* column estimation, raw grid extraction, repair) is caught and logged for
\* that table only: when the run is over, every failed table is in the log
\* and every other table with words has reached the output.
C19_FailureStaysWithItsTable ==
    extract_pc \in {"done", "crashed"} =>
        /\ extract_pc = "done"
        /\ \A k \in 1..Len(extract_tables) :
               /\ extract_tables[k].outcome \in {"crop"} \cup RaisedInsideTry
                      => \E n \in 1..Len(extract_log) : extract_log[n] = k
               /\ extract_tables[k].outcome = "ok"
                      => \E n \in 1..Len(extracted_tables) : extracted_tables[n] = k

\* C20: a write failure for one table's file is fatal only for that file:
\* when an extractor's run is over, the file of every table whose write
\* does not fail has been written.
C20_WriteFailureStaysWithItsFile ==
    save_pc \in {"done", "crashed"} =>
        \A k \in 1..Len(write_fails) : ~ write_fails[k] => k \in saved_files

\* --- the order of placement, stitching and writing ---

\* the tables whose grid is complete, by (page_num, table_index)
PlacedIds ==
    {<<placed_tables[i].page_num, placed_tables[i].table_index>> :
        i \in 1..Len(placed_tables)}

\* the tables a file holds rows of
FileSources(file) ==
    {file.data[r][c] : r \in DOMAIN file.data, c \in 1..file.max_cols}

\* a step that writes files writes grids whose placement was complete, and
\* in a lattice run it comes after the loops over the pages
WriteStepInOrder ==
    written_files' # written_files =>
        /\ \A i \in (Len(written_files) + 1)..Len(written_files') :
               FileSources(written_files'[i]) \subseteq PlacedIds
        /\ run_extractor = "lattice" => table_pos > Len(map_tables)

\* a step that calls the stitcher comes after the loops over the pages and
\* before any file, and passes every table extracted
StitchStepInOrder ==
    stitcher_calls' # stitcher_calls =>
        /\ written_files = <<>>
        /\ table_pos > Len(map_tables)
        /\ stitcher_calls' = <<placed_tables>>

LatticeTablesOfPage == find_lattice_tables(WithType(all_geoms \o page_elements))

\* C22: the hybrid detector runs only when the lattice detector yields
\* nothing: whenever find_lattice_tables returns at least one table,
\* find_geometric_tables returns exactly those tables and page.find_tables()
\* is not called; it is called only after the lattice detector returned an
\* empty list.
C22_ProposerOnlyAfterEmptyLattice ==
    hybrid_pc = "done" =>
        /\ LatticeTablesOfPage # <<>> =>
               hybrid_tables = LatticeTablesOfPage /\ proposer_calls = 0
        /\ proposer_calls > 0 => LatticeTablesOfPage = <<>>

\* the lattice detector found a table on a page for which the proposer had
\* proposals
C22_Witness ==
    /\ hybrid_pc = "done"
    /\ LatticeTablesOfPage # <<>>
    /\ proposals # <<>>
    /\ hybrid_tables = LatticeTablesOfPage

\* --- duplicates of the lattice detector ---

\* C23: no two tables in the list find_lattice_tables returns have bboxes
\* whose overlap exceeds 50% of the area of the smaller bbox.
C23_NoTwoTablesOverlapByHalf ==
    (hybrid_pc = "done" /\ proposer_calls = 0) =>
        \A i, j \in 1..Len(hybrid_tables) :
            i < j => ~ OverlapsProcessed(hybrid_tables[j].bbox, <<hybrid_tables[i].bbox>>)

\* --- the merge of the expanded candidates ---

\* C24: no two candidates remaining after the merge of lines 208-223 have
\* overlapping bboxes.
C24_MergedCandidatesDisjoint ==
    (hybrid_pc = "done" /\ proposer_calls > 0) =>
        \A i, j \in 1..Len(merged_candidates) :
            i < j => ~ BoxesOverlap(merged_candidates[i].bbox, merged_candidates[j].bbox)

\* --- the page bounds ---

\* C25: every table find_geometric_tables returns, by the lattice path or by
\* the fallback path, has a bbox within the bounds of the page.
C25_TablesWithinPage ==
    hybrid_pc = "done" =>
        \A i \in 1..Len(hybrid_tables) : WithinPage(hybrid_tables[i].bbox, PageBbox)

\* --- the bboxes of the fallback path ---

\* C29: every table the fallback path of find_geometric_tables returns has
\* x0 < x1 and top < bottom, whatever the proposals, the geometry and the
\* text blocks, also when the stream expansion takes its left edge from the
\* most frequent x0 and its right edge from the most frequent x1 of
\* different horizontal segments.
C29_FallbackBboxWellFormed ==
    (hybrid_pc = "done" /\ proposer_calls > 0) =>
        \A i \in 1..Len(hybrid_tables) :
            /\ hybrid_tables[i].bbox[1] < hybrid_tables[i].bbox[3]
            /\ hybrid_tables[i].bbox[2] < hybrid_tables[i].bbox[4]

\* the fallback path returned a table on a page where the most frequent x0
\* of the horizontal strokes around a proposal (80) is right of their most
\* frequent x1 (60)
C29_Witness ==
    /\ hybrid_pc = "done"
    /\ proposer_calls > 0
    /\ hybrid_tables # <<>>
    /\ \A k \in 3..6 : \E i \in 1..Len(page_lines) : page_lines[i] = LooseLines[k]
    /\ \E i \in 1..Len(proposals) : proposals[i] = <<30, 56, 110, 80>>

\* --- the text-alignment detector ---

\* the units [i, i + 1) right of the band's left edge that no word of its
\* lines of m words lies over
UnoccupiedUnits(band, m) ==
    LET x == group_bbox(band)[1]
        width == group_bbox(band)[3] - x
        template == UNION {{band[l][k] : k \in 1..Len(band[l])} :
                              l \in {l \in 1..Len(band) : Len(band[l]) = m}}
    IN  {i \in 0..(width - 1) : \A w \in template : ~ (w.x0 - x <= i /\ i < w.x1 - x)}

\* the wide gaps of a band: the maximal runs [a, b) of unoccupied units that
\* are wider than 3
WideGaps(band, m) ==
    LET free == UnoccupiedUnits(band, m)
        width == group_bbox(band)[3] - group_bbox(band)[1]
    IN  {g \in (0..width) \X (0..width) :
            /\ g[2] - g[1] > 3
            /\ \A i \in g[1]..(g[2] - 1) : i \in free
            /\ (g[1] - 1) \notin free
            /\ g[2] \notin free}

\* the number of lines of the band with n words
LinesWith(band, n) == Cardinality({l \in 1..Len(band) : Len(band[l]) = n})

\* the candidate carries m - 1 virtual lines from the top to the bottom of
\* the band, each in the middle of a wide gap of its own
CandidateOfBand(candidate, band, m) ==
    /\ Len(band) >= 3
    /\ m >= 2
    /\ \A l \in 1..Len(band) : LinesWith(band, Len(band[l])) <= LinesWith(band, m)
    /\ candidate.bbox = group_bbox(band)
    /\ Len(candidate.geometries) = m - 1
    /\ LET gaps == WideGaps(band, m)
           box == group_bbox(band)
       IN  \E gap_of \in [1..(m - 1) -> gaps] :
               /\ \A j, k \in 1..(m - 1) : j # k => gap_of[j] # gap_of[k]
               /\ \A k \in 1..(m - 1) :
                      LET line == candidate.geometries[k]
                      IN  /\ line.geom_type = "virtual_line"
                          /\ line.x0 = line.x1
                          /\ line.x0.num =
                                 line.x0.den * box[1] + gap_of[k][1] + gap_of[k][2]
                          /\ line.top = box[2]
                          /\ line.bottom = box[4]

\* the bands of the page and the candidates that came of them, in order
BandsOfPage == table_line_groups(extracted_words)

\* C26: every candidate find_text_alignment_tables emits comes from a band
\* of at least 3 lines whose most frequent number of words per line is
\* m >= 2, and carries exactly m - 1 virtual vertical lines, each at the
\* midpoint of a distinct zero-occupancy gap wider than 3 units and spanning
\* the band from top to bottom; a band with fewer than m - 1 such gaps emits
\* no candidate.
C26_CandidatesOfBands ==
    align_pc = "done" =>
        /\ \A c \in 1..Len(alignment_tables) :
               \E b \in 1..Len(BandsOfPage) :
                   \E m \in 2..Len(extracted_words) :
                       CandidateOfBand(alignment_tables[c], BandsOfPage[b], m)
        /\ \A b \in 1..Len(BandsOfPage) :
               LET band == BandsOfPage[b]
                   m == most_common_word_count(band)
               IN  Cardinality(WideGaps(band, m)) < m - 1 =>
                       \A c \in 1..Len(alignment_tables) :
                           alignment_tables[c].bbox # group_bbox(band)

\* a band of four lines, three of them of three words, gave a candidate with
\* two virtual lines
C26_Witness ==
    /\ align_pc = "done"
    /\ Len(BandsOfPage) = 1
    /\ Len(BandsOfPage[1]) = 4
    /\ Len(alignment_tables) = 1
    /\ Len(alignment_tables[1].geometries) = 2

\* --- the stitcher conserves its input ---

\* the rows of the i-th output table that came from the input table t
RowsFrom(i, t) ==
    {r \in 1..Len(merged_tables[i].data) :
        merged_tables[i].data[r][1] = <<t.page_num, t.table_index>>}

\* the number of rows of the tables from the k-th on
RECURSIVE RowCount(_, _)
RowCount(tables, k) ==
    IF k > Len(tables) THEN 0 ELSE Len(tables[k].data) + RowCount(tables, k + 1)

\* the output table is the input table t, with the ID it was given
IsAlone(out, t) ==
    out = [t EXCEPT !.id = <<t.page_num, t.table_index>>]

\* the output table is made of the rows of two input tables, t being one
IsHalfOf(out, t) ==
    /\ out.is_merged
    /\ \E i, j \in 1..Len(all_tables) :
           /\ i # j
           /\ t \in {all_tables[i], all_tables[j]}
           /\ out.data = all_tables[i].data \o all_tables[j].data

\* C27: merge_cross_page_tables conserves its input: every input table, by
\* page number and table index, is in exactly one output table, alone and
\* unchanged or as one of the two halves of a merged table; the total number
\* of rows is the same; no table is dropped or duplicated.
C27_StitcherConservesTables ==
    merge_pc = "merged" =>
        /\ \A n \in 1..Len(all_tables) :
               \E i \in 1..Len(merged_tables) :
                   /\ Cardinality(RowsFrom(i, all_tables[n])) = Len(all_tables[n].data)
                   /\ \A j \in 1..Len(merged_tables) :
                          j # i => RowsFrom(j, all_tables[n]) = {}
                   /\ \/ IsAlone(merged_tables[i], all_tables[n])
                      \/ IsHalfOf(merged_tables[i], all_tables[n])
        /\ RowCount(merged_tables, 1) = RowCount(all_tables, 1)

\* three tables went in; two came out, one of them merged from two pages
C27_Witness ==
    /\ merge_pc = "merged"
    /\ Len(all_tables) = 3
    /\ Len(merged_tables) = 2
    /\ \E i \in 1..2 : merged_tables[i].is_merged
    /\ \E i \in 1..2 : ~ merged_tables[i].is_merged

\* --- the orientation of a page ---

\* C28: for every width and height, width = height included, the orientation
\* extract_lattice_tables derives for the page equals the orientation
\* analyze_page_layout recorded for it.
C28_SameOrientation ==
    orient_pc = "derived" => stitcher_orientation = layout_page.orientation

\* --- the centered-text repair keeps the content ---

\* the non-empty cell values of the row, from left to right
NonEmptyValues(row) == SelectSeq(row, LAMBDA cell : ~ is_empty_cell(cell))

\* C30: fix_centered_text_issues never loses or reorders content: for every
\* grid and estimate the grid returned has as many rows as the grid given,
\* and each of its rows holds exactly the non-empty cell values of the
\* corresponding row given, in the same left-to-right order.
C30_ContentPreserved ==
    repair_pc = "done" =>
        /\ Len(fixed_table) = Len(table_data)
        /\ \A r \in 1..Len(table_data) :
               NonEmptyValues(fixed_table[r]) = NonEmptyValues(table_data[r])

\* a grid of two rows was repaired: a row with two values had one of them
\* moved to the left, and a column was removed
C30_Witness ==
    /\ repair_pc = "done"
    /\ NeedsRepair(table_data, estimated_cols)
    /\ Len(table_data) = 2
    /\ Len(fixed_table[1]) < Len(table_data[1])
    /\ \E r \in 1..2 :
           /\ Len(NonEmptyValues(table_data[r])) >= 2
           /\ RepairRows(table_data)[r] # table_data[r]

===========================================================================
